---- MODULE Spec2Model ----
(***************************************************************************)
(* NextGenTransportMockup: the Arbiter (device registry + control-token    *)
(* mint behind a single state actor), the Device (token validator +        *)
(* parameter handler) and the part of the Controller that carries         *)
(* tokens from the one to the other.                                       *)
(*                                                                         *)
(* Time is one wall clock in whole seconds.  A Uuid is a short name; its   *)
(* textual (hyphenated) form is what UuidToString gives, and only that     *)
(* form appears inside tokens and on the wire.                             *)
(***************************************************************************)
EXTENDS Integers, Sequences, FiniteSets, TLC

(***************************************************************************)
(* Bounds of the model.                                                    *)
(***************************************************************************)
\* Number of concurrent CoAP handler invocations (DTLS sessions) on the Arbiter.
NumHandlers == 2
\* How many times the clock is advanced in one behaviour.
MaxTicks == 3
\* How many CoAP requests the Arbiter is sent in one behaviour.
MaxRequests == 3
\* The clock value (seconds since the epoch) at which the behaviour starts.
StartTime == 100
\* How many lines the Controller's command loop reads in one behaviour.
MaxCommands == 3

(***************************************************************************)
(* Program constants.                                                      *)
(***************************************************************************)
\* get_control_token: exp = now + 6000 s
TokenLifetime == 6000
\* main (arbiter): channel(1000)
QueueCapacity == 1000
\* register_with_arbiter (device): ttl: 3600
DeviceTtl == 3600
\* jsonwebtoken's Validation::new: a leeway of 60 s, which decode_jwt keeps
Leeway == 60

None == [kind |-> "None"]

Handlers == 1..NumHandlers

(***************************************************************************)
(* Component ids.                                                          *)
(***************************************************************************)
ArbiterCid == "arb"
ControllerCids == {"c1", "c2"}
DeviceCids == {"d1", "d2"}
Uuids == {ArbiterCid} \cup ControllerCids \cup DeviceCids

\* Uuid::to_string(): the canonical 8-4-4-4-12 rendering.
UuidToString(u) ==
    CASE u = "arb" -> "a0000000-0000-0000-0000-000000000000"
      [] u = "c1"  -> "c1000000-0000-0000-0000-000000000000"
      [] u = "c2"  -> "c2000000-0000-0000-0000-000000000000"
      [] u = "d1"  -> "11111111-1111-1111-1111-111111111111"
      [] u = "d2"  -> "22222222-2222-2222-2222-222222222222"

\* str::parse::<Uuid>(): Ok(u) for the text of a Uuid, Err otherwise.
ParseUuid(s) ==
    IF \E u \in Uuids : UuidToString(u) = s
    THEN [ok |-> TRUE, value |-> CHOOSE u \in Uuids : UuidToString(u) = s]
    ELSE [ok |-> FALSE]

Parameters == {"speed", "pressure"}

\* Vec::contains
Contains(seq, x) == \E i \in 1..Len(seq) : seq[i] = x
SeqToSet(seq) == {seq[i] : i \in 1..Len(seq)}

(***************************************************************************)
(* ACL database (acl.rs): a list of entries, loaded once from the config.  *)
(***************************************************************************)
AclEntry(controllers, devs, read, write) ==
    [controller_cids |-> controllers, device_cids |-> devs,
     parameters |-> [read |-> read, write |-> write]]

\* The ACL databases a config.json may hold (config.rs: default is empty).
AclDatabases ==
    { [entries |-> << >>],
      [entries |-> << AclEntry(<<"c1">>, <<"d1">>, <<"speed">>, << >>) >>] }

\* An entry matches (controller, device, parameter, access).
AclEntryMatches(e, c, d, p, access) ==
    /\ Contains(e.controller_cids, c)
    /\ Contains(e.device_cids, d)
    /\ IF access = "read" THEN Contains(e.parameters.read, p)
                          ELSE Contains(e.parameters.write, p)

AclAllows(db, c, d, p, access) ==
    \E i \in 1..Len(db.entries) : AclEntryMatches(db.entries[i], c, d, p, access)

(***************************************************************************)
(* JSON Web Tokens.  A compact JWS is header.payload.signature; the        *)
(* signature is over the header and the payload, so it is modelled as the  *)
(* key together with exactly what was signed.                              *)
(***************************************************************************)
ArbiterKey == "arbiter-key"
OtherKey == "other-key"
\* A private key KeyPair::from_pem accepts that is not on the P-256 curve.
WrongCurveKey == "p384-key"

\* jsonwebtoken::encode with ES256 fails (InvalidEcdsaKey) unless the key is
\* a P-256 key.
CanSign(key) == key # WrongCurveKey

\* Header::new(alg)
Header(alg) == [alg |-> alg, typ |-> "JWT"]

JwtClaims(iss, sub, aud, exp, pr, pw) ==
    [iss |-> iss, sub |-> sub, aud |-> aud, exp |-> exp,
     params_read |-> pr, params_write |-> pw]

Sign(key, header, claims) == [key |-> key, header |-> header, claims |-> claims]

\* jsonwebtoken::encode(header, claims, key)
JwtEncode(header, claims, key) ==
    [kind |-> "jws", header |-> header, claims |-> claims,
     signature |-> Sign(key, header, claims)]

\* A token string that is not of the form a.b.c
GarbageToken == [kind |-> "garbage"]

\* Signature verification with the public half of `key`.
VerifySignature(token, key) ==
    /\ token.signature.key = key
    /\ token.signature.header = token.header
    /\ token.signature.claims = token.claims

\* Mutant of decode_jwt: no audience is set on the Validation.
decode_jwt_NoAudience(token, decoder, my_cid, t) ==
    IF token.kind # "jws" THEN [ok |-> FALSE, err |-> "InvalidToken"]
    ELSE IF token.header.alg # "ES256" THEN [ok |-> FALSE, err |-> "InvalidAlgorithm"]
    ELSE IF ~VerifySignature(token, decoder) THEN [ok |-> FALSE, err |-> "InvalidSignature"]
    ELSE IF token.claims.exp < t - Leeway THEN [ok |-> FALSE, err |-> "ExpiredSignature"]
    ELSE [ok |-> TRUE, claims |-> token.claims]

\* Mutant of decode_jwt: the signature is not verified.
decode_jwt_NoSignature(token, decoder, my_cid, t) ==
    IF token.kind # "jws" THEN [ok |-> FALSE, err |-> "InvalidToken"]
    ELSE IF token.header.alg # "ES256" THEN [ok |-> FALSE, err |-> "InvalidAlgorithm"]
    ELSE IF token.claims.exp < t - Leeway THEN [ok |-> FALSE, err |-> "ExpiredSignature"]
    ELSE IF token.claims.aud # my_cid THEN [ok |-> FALSE, err |-> "InvalidAudience"]
    ELSE [ok |-> TRUE, claims |-> token.claims]

\* decode_jwt: Validation::new(ES256) with set_audience([my_cid]); the
\* library's defaults stay: exp is validated with a leeway of 60 s, and a
\* token is expired only when exp < now - leeway.
decode_jwt(token, decoder, my_cid, t) ==
    IF token.kind # "jws" THEN [ok |-> FALSE, err |-> "InvalidToken"]
    ELSE IF token.header.alg # "ES256" THEN [ok |-> FALSE, err |-> "InvalidAlgorithm"]
    ELSE IF ~VerifySignature(token, decoder) THEN [ok |-> FALSE, err |-> "InvalidSignature"]
    ELSE IF token.claims.exp < t - Leeway THEN [ok |-> FALSE, err |-> "ExpiredSignature"]
    ELSE IF token.claims.aud # my_cid THEN [ok |-> FALSE, err |-> "InvalidAudience"]
    ELSE [ok |-> TRUE, claims |-> token.claims]

(***************************************************************************)
(* CoAP responses.  A request's response starts as 2.05 Content with an    *)
(* empty payload (coap_lite's CoapResponse::new).                          *)
(***************************************************************************)
EmptyPayload == [kind |-> "empty"]
Text(s) == [kind |-> "text", text |-> s]
DefaultResponse == [code |-> "2.05", payload |-> EmptyPayload]

\* HandlingError constructors
HandlingError(code, message) == [code |-> code, message |-> message]
bad_request(message) == HandlingError("4.00", message)
not_found == HandlingError("4.04", "Not found")

\* CoapRequest::apply_from_error
apply_from_error(e) == [code |-> e.code, payload |-> Text(e.message)]

(***************************************************************************)
(* Arbiter state (state.rs).                                               *)
(***************************************************************************)
Max(a, b) == IF a > b THEN a ELSE b

\* The largest second an Instant can hold and the largest u64, both scaled
\* down together so that U64Max > InstantMax stays true.
InstantMax == 1000000
U64Max == 2000001

\* Mutant of register_device: a repeated cid overwrites the record.
register_device_Overwrite(devs, device, t) ==
    IF t + device.ttl > InstantMax
    THEN [kind |-> "Panic", devices |-> devs]
    ELSE [kind |-> "Ok",
          devices |-> [c \in (DOMAIN devs) \cup {device.cid} |->
                         IF c = device.cid
                         THEN [label |-> device.label,
                               manufacturer |-> device.manufacturer,
                               model |-> device.model,
                               port |-> device.port,
                               valid_until |-> t + device.ttl]
                         ELSE devs[c]]]

\* Mutant of register_device: the deadline is the TTL itself, not now + TTL.
register_device_FromEpoch(devs, device, t) ==
    IF device.cid \in DOMAIN devs
    THEN [kind |-> "Err", message |-> "A device with this CID already exists",
          devices |-> devs]
    ELSE IF t + device.ttl > InstantMax
    THEN [kind |-> "Panic", devices |-> devs]
    ELSE [kind |-> "Ok",
          devices |-> [c \in (DOMAIN devs) \cup {device.cid} |->
                         IF c = device.cid
                         THEN [label |-> device.label,
                               manufacturer |-> device.manufacturer,
                               model |-> device.model,
                               port |-> device.port,
                               valid_until |-> device.ttl]
                         ELSE devs[c]]]

\* Mutant of register_device: a record whose deadline has passed is
\* replaced.
register_device_ReplaceExpired(devs, device, t) ==
    IF device.cid \in DOMAIN devs /\ devs[device.cid].valid_until > t
    THEN [kind |-> "Err", message |-> "A device with this CID already exists",
          devices |-> devs]
    ELSE IF t + device.ttl > InstantMax
    THEN [kind |-> "Panic", devices |-> devs]
    ELSE [kind |-> "Ok",
          devices |-> [c \in (DOMAIN devs) \cup {device.cid} |->
                         IF c = device.cid
                         THEN [label |-> device.label,
                               manufacturer |-> device.manufacturer,
                               model |-> device.model,
                               port |-> device.port,
                               valid_until |-> t + device.ttl]
                         ELSE devs[c]]]

\* register_device: Entry::Occupied -> Err; Entry::Vacant -> insert, where
\* Instant::now() + Duration::from_secs(ttl) panics when it overflows.
register_device(devs, device, t) ==
    IF device.cid \in DOMAIN devs
    THEN [kind |-> "Err", message |-> "A device with this CID already exists",
          devices |-> devs]
    ELSE IF t + device.ttl > InstantMax
    THEN [kind |-> "Panic", devices |-> devs]
    ELSE [kind |-> "Ok",
          devices |-> [c \in (DOMAIN devs) \cup {device.cid} |->
                         IF c = device.cid
                         THEN [label |-> device.label,
                               manufacturer |-> device.manufacturer,
                               model |-> device.model,
                               port |-> device.port,
                               valid_until |-> t + device.ttl]
                         ELSE devs[c]]]

\* Mutant of list_devices: the remaining time is a plain subtraction.
list_devices_Unsaturated(devs, t) ==
    { [cid |-> c, label |-> devs[c].label, manufacturer |-> devs[c].manufacturer,
       model |-> devs[c].model, port |-> devs[c].port,
       ttl |-> devs[c].valid_until - t] : c \in DOMAIN devs }

\* list_devices: one ApiDevice per registry entry (HashMap order is not
\* kept: the list is modelled as a set); duration_since saturates at zero.
list_devices(devs, t) ==
    { [cid |-> c, label |-> devs[c].label, manufacturer |-> devs[c].manufacturer,
       model |-> devs[c].model, port |-> devs[c].port,
       ttl |-> Max(0, devs[c].valid_until - t)] : c \in DOMAIN devs }

\* Mutant of MintClaims: the expiry follows the device's registration TTL.
MintClaims_DeviceTtl(request, arb_cid, device, t) ==
    JwtClaims(UuidToString(arb_cid), UuidToString(request.cid), UuidToString(device),
              t + DeviceTtl, request.params_read, request.params_write)

\* Mutant of MintClaims: the claims are built once, for the first device.
MintClaims_Shared(request, arb_cid, device, t) ==
    JwtClaims(UuidToString(arb_cid), UuidToString(request.cid),
              UuidToString(request.devices[1]),
              t + TokenLifetime, request.params_read, request.params_write)

\* The JwtClaims get_control_token builds for one device of the request.
MintClaims(request, arb_cid, device, t) ==
    JwtClaims(UuidToString(arb_cid), UuidToString(request.cid), UuidToString(device),
              t + TokenLifetime, request.params_read, request.params_write)

\* The `for device in &request.devices` loop of get_control_token, from the
\* i-th device on, and the Ok(response) after it.
RECURSIVE MintTokens(_, _, _, _, _, _)
MintTokens(request, key, arb_cid, t, i, tokens) ==
    IF i > Len(request.devices) THEN [kind |-> "Ok", tokens |-> tokens]
    ELSE IF ~CanSign(key)
    THEN [kind |-> "Err", message |-> "InvalidEcdsaKey"]
    ELSE LET device == request.devices[i]
             claims == MintClaims(request, arb_cid, device, t)
             token == JwtEncode(Header("ES256"), claims, key)
             inserted == [d \in (DOMAIN tokens) \cup {device} |->
                            IF d = device THEN token ELSE tokens[d]]
         IN  MintTokens(request, key, arb_cid, t, i + 1, inserted)

\* get_control_token: no ACL validation (a TODO in the source); one token per
\* entry of request.devices, inserted into a HashMap keyed by the device cid;
\* the first encode error is returned in place of the response (`?`).
get_control_token(request, db, key, arb_cid, t) ==
    MintTokens(request, key, arb_cid, t, 1, << >>)

\* Response::into_coap_response
into_coap_response(resp) ==
    CASE resp.kind = "Ok" -> DefaultResponse
      [] resp.kind = "ListResponse" ->
            [code |-> "2.05", payload |-> [kind |-> "devices", devices |-> resp.devices]]
      [] resp.kind = "ControlTokenResponse" ->
            [code |-> "2.05", payload |-> [kind |-> "tokens", tokens |-> resp.tokens]]
      [] resp.kind = "Error" -> apply_from_error(resp.error)

(***************************************************************************)
(* Arbiter request routing (request_handler.rs).                           *)
(***************************************************************************)
CoapRequest(method, path, payload) ==
    [method |-> method, path |-> path, payload |-> payload]

GarbageBody == [kind |-> "garbage"]

\* serde_json::from_slice::<T>: succeeds on a body that is T's JSON.
ParsesAs(body, ty) == body.kind = ty

\* Request::asynchronous(RequestType::Shutdown): a request without a reply
\* slot.
ShutdownRequest == [ty |-> [kind |-> "Shutdown"], notify |-> 0, gen |-> 0]

\* Mutant of Route: the cid of PUT /devices/{id} is parsed before the body.
Route_CidFirst(req) ==
    IF req.method = "GET" /\ req.path = <<"devices">>
    THEN [kind |-> "Enqueue", ty |-> [kind |-> "List"]]
    ELSE IF req.method = "PUT" /\ Len(req.path) = 2 /\ req.path[1] = "devices"
    THEN IF ~ParseUuid(req.path[2]).ok
         THEN [kind |-> "Panic"]
         ELSE IF ~ParsesAs(req.payload, "PutDevicePayload")
         THEN [kind |-> "Reply",
               response |-> apply_from_error(
                   bad_request("Couldn't parse payload of PUT /devices/{id}"))]
         ELSE [kind |-> "Enqueue",
               ty |-> [kind |-> "Register",
                       device |-> [cid |-> ParseUuid(req.path[2]).value,
                                   label |-> req.payload.label,
                                   manufacturer |-> req.payload.manufacturer,
                                   model |-> req.payload.model,
                                   port |-> req.payload.port,
                                   ttl |-> req.payload.ttl]]]
    ELSE IF req.method = "GET" /\ req.path = <<"controlToken">>
    THEN IF ~ParsesAs(req.payload, "ControlTokenRequest")
         THEN [kind |-> "Reply",
               response |-> apply_from_error(
                   bad_request("Couldn't parse payload of GET /controlToken"))]
         ELSE [kind |-> "Enqueue",
               ty |-> [kind |-> "ControlToken",
                       request |-> [cid |-> req.payload.cid,
                                    devices |-> req.payload.devices,
                                    params_read |-> req.payload.params_read,
                                    params_write |-> req.payload.params_write]]]
    ELSE [kind |-> "Reply", response |-> apply_from_error(not_found)]

\* The match on (method, path) of handle_request: what the handler does
\* before it touches the queue.
Route(req) ==
    IF req.method = "GET" /\ req.path = <<"devices">>
    THEN [kind |-> "Enqueue", ty |-> [kind |-> "List"]]
    ELSE IF req.method = "PUT" /\ Len(req.path) = 2 /\ req.path[1] = "devices"
    THEN IF ~ParsesAs(req.payload, "PutDevicePayload")
         THEN [kind |-> "Reply",
               response |-> apply_from_error(
                   bad_request("Couldn't parse payload of PUT /devices/{id}"))]
         ELSE IF ~ParseUuid(req.path[2]).ok
         THEN [kind |-> "Panic"]
         ELSE [kind |-> "Enqueue",
               ty |-> [kind |-> "Register",
                       device |-> [cid |-> ParseUuid(req.path[2]).value,
                                   label |-> req.payload.label,
                                   manufacturer |-> req.payload.manufacturer,
                                   model |-> req.payload.model,
                                   port |-> req.payload.port,
                                   ttl |-> req.payload.ttl]]]
    ELSE IF req.method = "GET" /\ req.path = <<"controlToken">>
    THEN IF ~ParsesAs(req.payload, "ControlTokenRequest")
         THEN [kind |-> "Reply",
               response |-> apply_from_error(
                   bad_request("Couldn't parse payload of GET /controlToken"))]
         ELSE [kind |-> "Enqueue",
               ty |-> [kind |-> "ControlToken",
                       request |-> [cid |-> req.payload.cid,
                                    devices |-> req.payload.devices,
                                    params_read |-> req.payload.params_read,
                                    params_write |-> req.payload.params_write]]]
    ELSE [kind |-> "Reply", response |-> apply_from_error(not_found)]

(***************************************************************************)
(* State.                                                                  *)
(***************************************************************************)
VARIABLES
    now,        \* the wall clock, seconds
    nticks,     \* how often the clock was advanced
    nreq,       \* how many requests the Arbiter was sent
    acl,        \* the AclDatabase given to run_state_loop
    jwt_key,    \* the private key given to run_state_loop
    dropped,    \* the Arbiter's RequestHandler has been destroyed
    shutdown_seen, \* history: the state actor has dequeued a Shutdown request
    hgen,       \* per handler: how many of its invocations were cancelled; it
                \* names the reply slot of the current invocation
    dproc,      \* per Device: its process, "down" | "serving" | "terminated",
                \* and the status of the reply to its latest registration
    written,    \* history, per Device: the parameter and value of the latest
                \* PUT it executed ("Setting {parameter} to {value}")
    tui,        \* the Controller's command loop: its position, whether it
                \* holds a client, current_devices, and of the latest command
                \* what it was, what it printed, which entries of
                \* current_devices it looked up and whether it sent a request
    devices,    \* State.devices: cid -> Device
    created,    \* history: cid -> the instant its record was created and the
                \* TTL that was submitted for it
    lastList,   \* history: the devices of the latest ListResponse
    channel,    \* the mpsc channel between the handlers and the state actor
    actor,      \* "running" | "panicked"
    hpc,        \* per handler: "idle" | "waiting" | "responded" | "panicked"
    hreq,       \* per handler: the CoAP request being handled
    hresp,      \* per handler: the CoAP response handle_request returns for hreq
    oneshot,    \* per handler: the reply slot of its queued request
    wallet,     \* the control token the Controller holds
    exchange    \* the request a Device handled, with its response, until the
                \* peer has read it

vars == <<now, nticks, nreq, acl, jwt_key, dropped, shutdown_seen, hgen, dproc, written, tui,
          devices, created, lastList, channel, actor, hpc, hreq, hresp, oneshot,
          wallet, exchange>>

arbiterVars == <<nreq, acl, jwt_key, dropped, shutdown_seen, hgen,
                 devices, created, lastList, channel, actor, hpc, hreq, hresp, oneshot>>

\* The processes after construction: the Arbiter with one of the private
\* keys `keys`, every Device process in the given stage.
Boot(keys, stage) ==
    /\ now = StartTime
    /\ nticks = 0
    /\ nreq = 0
    /\ acl \in AclDatabases
    /\ jwt_key \in keys
    /\ dropped = FALSE
    /\ shutdown_seen = FALSE
    /\ hgen = [h \in Handlers |-> 0]
    /\ dproc = [d \in DeviceCids |-> [pc |-> stage, reg |-> None]]
    /\ written = [d \in DeviceCids |-> None]
    /\ tui = [pc |-> "reading", client |-> FALSE, current_devices |-> << >>,
              ncmd |-> 0, cmd |-> None, out |-> "", lookup |-> << >>,
              sent |-> FALSE]
    /\ devices = << >>
    /\ created = << >>
    /\ lastList = None
    /\ channel = << >>
    /\ actor = "running"
    /\ hpc = [h \in Handlers |-> "idle"]
    /\ hreq = [h \in Handlers |-> None]
    /\ hresp = [h \in Handlers |-> None]
    /\ oneshot = [h \in Handlers |-> None]
    /\ wallet = None
    /\ exchange = None

\* The Arbiter holds the P-256 key create-certs made for it; the Devices are
\* up and serving.
Init == Boot({ArbiterKey}, "serving")

(***************************************************************************)
(* The clock.                                                              *)
(***************************************************************************)
Tick(step) ==
    /\ nticks < MaxTicks
    /\ now' = now + step
    /\ nticks' = nticks + 1
    /\ UNCHANGED <<arbiterVars, dproc, written, tui, wallet, exchange>>

(***************************************************************************)
(* RequestHandler::handle_request of the Arbiter, up to the point where    *)
(* it awaits the reply.                                                    *)
(***************************************************************************)
ArbiterHandleRequest(h, req) ==
    /\ ~dropped
    /\ hpc[h] \in {"idle", "panicked"}
    /\ nreq < MaxRequests
    /\ nreq' = nreq + 1
    /\ hreq' = [hreq EXCEPT ![h] = req]
    /\ LET r == Route(req) IN
       \/ /\ r.kind = "Reply"
          /\ hresp' = [hresp EXCEPT ![h] = r.response]
          /\ hpc' = [hpc EXCEPT ![h] = "responded"]
          /\ UNCHANGED channel
       \/ /\ r.kind = "Panic"
          /\ hresp' = [hresp EXCEPT ![h] = None]
          /\ hpc' = [hpc EXCEPT ![h] = "panicked"]
          /\ UNCHANGED channel
       \/ /\ r.kind = "Enqueue"
          /\ actor = "running"
          /\ Len(channel) < QueueCapacity
          /\ channel' = Append(channel, [ty |-> r.ty, notify |-> h, gen |-> hgen[h]])
          /\ hresp' = [hresp EXCEPT ![h] = None]
          /\ hpc' = [hpc EXCEPT ![h] = "waiting"]
       \/ /\ r.kind = "Enqueue"
          /\ actor # "running"
          /\ hresp' = [hresp EXCEPT ![h] = None]
          /\ hpc' = [hpc EXCEPT ![h] = "panicked"]
          /\ UNCHANGED channel
    /\ UNCHANGED <<now, nticks, acl, jwt_key, dropped, shutdown_seen, hgen, dproc, written, tui,
                   devices, created, lastList, actor, oneshot, wallet, exchange>>

\* resp_rx.await, then Response::into_coap_response
HandlerReceive(h) ==
    /\ hpc[h] = "waiting"
    /\ oneshot[h] # None
    /\ hresp' = [hresp EXCEPT ![h] = into_coap_response(oneshot[h])]
    /\ oneshot' = [oneshot EXCEPT ![h] = None]
    /\ hpc' = [hpc EXCEPT ![h] = "responded"]
    /\ UNCHANGED <<now, nticks, nreq, acl, jwt_key, dropped, shutdown_seen, hgen, dproc, written, tui,
                   devices, created, lastList, channel, actor, hreq, wallet,
                   exchange>>

\* resp_rx.await.unwrap() when the reply sender was dropped without a reply
HandlerRecvError(h) ==
    /\ hpc[h] = "waiting"
    /\ oneshot[h] = None
    /\ actor = "panicked"
    /\ hpc' = [hpc EXCEPT ![h] = "panicked"]
    /\ UNCHANGED <<now, nticks, nreq, acl, jwt_key, dropped, shutdown_seen, hgen, dproc, written, tui,
                   devices, created, lastList, channel, actor, hreq, hresp,
                   oneshot, wallet, exchange>>

\* The invocation is dropped while it awaits resp_rx (its session has
\* ended before the state actor replied): the reply receiver goes with it.
HandlerCancelled(h) ==
    /\ hpc[h] = "waiting"
    /\ oneshot[h] = None
    /\ hpc' = [hpc EXCEPT ![h] = "idle"]
    /\ hreq' = [hreq EXCEPT ![h] = None]
    /\ hgen' = [hgen EXCEPT ![h] = hgen[h] + 1]
    /\ UNCHANGED <<now, nticks, nreq, acl, jwt_key, dropped, shutdown_seen, dproc, written, tui,
                   devices, created, lastList, channel, actor, hresp, oneshot,
                   wallet, exchange>>

\* handle_request has returned the request with its response; the server
\* sends it and the invocation is over.
Deliver(h) ==
    /\ hpc[h] = "responded"
    /\ hpc' = [hpc EXCEPT ![h] = "idle"]
    /\ hreq' = [hreq EXCEPT ![h] = None]
    /\ hresp' = [hresp EXCEPT ![h] = None]
    /\ UNCHANGED <<now, nticks, nreq, acl, jwt_key, dropped, shutdown_seen, hgen, dproc, written, tui,
                   devices, created, lastList, channel, actor, oneshot, wallet,
                   exchange>>

(***************************************************************************)
(* One iteration of the `while let Some(request) = channel.recv().await`   *)
(* loop of run_state_loop.                                                 *)
(***************************************************************************)
\* Mutant of Process: tokens are minted only for devices that are
\* registered and whose deadline has not passed.
Process_KnownDevices(ty, devs, db, t) ==
    CASE ty.kind = "Register" ->
            LET reg == register_device(devs, ty.device, t) IN
            IF reg.kind = "Ok"
            THEN [panic |-> FALSE, devices |-> reg.devices,
                  response |-> [kind |-> "Ok"]]
            ELSE IF reg.kind = "Err"
            THEN [panic |-> FALSE, devices |-> reg.devices,
                  response |-> [kind |-> "Error", error |-> bad_request(reg.message)]]
            ELSE [panic |-> TRUE, devices |-> reg.devices]
      [] ty.kind = "List" ->
            [panic |-> FALSE, devices |-> devs,
             response |-> [kind |-> "ListResponse", devices |-> list_devices(devs, t)]]
      [] ty.kind = "ControlToken" ->
            LET tok == get_control_token(ty.request, db, jwt_key, ArbiterCid, t) IN
            IF /\ tok.kind = "Ok"
               /\ \A i \in 1..Len(ty.request.devices) :
                     /\ ty.request.devices[i] \in DOMAIN devs
                     /\ devs[ty.request.devices[i]].valid_until > t
            THEN [panic |-> FALSE, devices |-> devs,
                  response |-> [kind |-> "ControlTokenResponse", tokens |-> tok.tokens]]
            ELSE [panic |-> FALSE, devices |-> devs,
                  response |-> [kind |-> "Error", error |-> bad_request("Unknown device")]]
      [] ty.kind = "Shutdown" ->
            [panic |-> FALSE, devices |-> devs, response |-> [kind |-> "Ok"]]

\* The Response computed for a request type, with the registry after it.
Process(ty, devs, db, t) ==
    CASE ty.kind = "Register" ->
            LET reg == register_device(devs, ty.device, t) IN
            IF reg.kind = "Ok"
            THEN [panic |-> FALSE, devices |-> reg.devices,
                  response |-> [kind |-> "Ok"]]
            ELSE IF reg.kind = "Err"
            THEN [panic |-> FALSE, devices |-> reg.devices,
                  response |-> [kind |-> "Error", error |-> bad_request(reg.message)]]
            ELSE [panic |-> TRUE, devices |-> reg.devices]
      [] ty.kind = "List" ->
            [panic |-> FALSE, devices |-> devs,
             response |-> [kind |-> "ListResponse", devices |-> list_devices(devs, t)]]
      [] ty.kind = "ControlToken" ->
            LET tok == get_control_token(ty.request, db, jwt_key, ArbiterCid, t) IN
            IF tok.kind = "Ok"
            THEN [panic |-> FALSE, devices |-> devs,
                  response |-> [kind |-> "ControlTokenResponse", tokens |-> tok.tokens]]
            ELSE [panic |-> FALSE, devices |-> devs,
                  response |-> [kind |-> "Error", error |-> bad_request(tok.message)]]
      [] ty.kind = "Shutdown" ->
            [panic |-> FALSE, devices |-> devs, response |-> [kind |-> "Ok"]]

\* Request::respond: the reply reaches the handler only when the request
\* has a reply slot and the invocation that awaits it still exists.
ReceiverAlive_Never(request) ==
    FALSE

\* Mutant of ReceiverAlive: the reply slot belongs to the handler, whichever
\* of its invocations awaits.
ReceiverAlive_AnyInvocation(request) ==
    /\ request.notify \in Handlers
    /\ hpc[request.notify] = "waiting"

ReceiverAlive(request) ==
    /\ request.notify \in Handlers
    /\ hgen[request.notify] = request.gen
    /\ hpc[request.notify] = "waiting"

\* Mutant of respond: the reply is put in front of every handler that
\* awaits one.
respond_Broadcast(request, response, slots) ==
    [h \in Handlers |-> IF hpc[h] = "waiting" /\ slots[h] = None
                        THEN response ELSE slots[h]]

\* Request::respond: notify.send(response) hands the reply to the receiver
\* of this request; it fails, changing nothing, when that receiver is gone.
respond(request, response, slots) ==
    IF ReceiverAlive(request)
    THEN [slots EXCEPT ![request.notify] = response]
    ELSE slots

\* Mutant of recv: the request that arrived last is taken first.
recv_Lifo(ch) ==
    [request |-> ch[Len(ch)], rest |-> SubSeq(ch, 1, Len(ch) - 1)]

\* channel.recv(): the oldest request of the queue, and the queue without it.
recv(ch) ==
    [request |-> Head(ch), rest |-> Tail(ch)]

run_state_loop ==
    /\ actor = "running"
    /\ channel # << >>
    /\ LET request == recv(channel).request
           r == Process(request.ty, devices, acl, now)
       IN  IF r.panic
           THEN /\ actor' = "panicked"
                /\ channel' = << >>
                /\ UNCHANGED <<devices, created, lastList, oneshot, shutdown_seen>>
           ELSE /\ devices' = r.devices
                /\ shutdown_seen' = (shutdown_seen \/ request.ty.kind = "Shutdown")
                /\ created' =
                      IF request.ty.kind = "Register" /\ r.response.kind = "Ok"
                      THEN [c \in (DOMAIN created) \cup {request.ty.device.cid} |->
                              IF c = request.ty.device.cid
                              THEN [at |-> now, ttl |-> request.ty.device.ttl]
                              ELSE created[c]]
                      ELSE created
                /\ lastList' = IF request.ty.kind = "List"
                               THEN [devices |-> r.response.devices]
                               ELSE lastList
                /\ channel' = recv(channel).rest
                /\ oneshot' = respond(request, r.response, oneshot)
                /\ UNCHANGED actor
    /\ UNCHANGED <<now, nticks, nreq, acl, jwt_key, dropped, hgen, dproc, written, tui, hpc, hreq, hresp,
                   wallet, exchange>>

(***************************************************************************)
(* The end of the Arbiter's handler and of the state loop.                 *)
(***************************************************************************)
\* Drop for RequestHandler: `let _ = self.tx.send(..)` builds the future of
\* an async send and discards it unpolled, so nothing enters the queue; the
\* handler's Sender, the only one, goes with it.  No invocation borrows the
\* handler at that point.
Drop_RequestHandler ==
    /\ ~dropped
    /\ \A h \in Handlers : hpc[h] \in {"idle", "panicked"}
    /\ dropped' = TRUE
    /\ UNCHANGED <<now, nticks, nreq, acl, jwt_key, shutdown_seen, hgen, dproc, written, tui,
                   devices, created, lastList, channel, actor, hpc, hreq, hresp,
                   oneshot, wallet, exchange>>

\* A holder of the queue's Sender sends the Shutdown marker, as the
\* destructor is meant to.
SendShutdown ==
    /\ ~dropped
    /\ actor = "running"
    /\ Len(channel) < QueueCapacity
    /\ \A i \in 1..Len(channel) : channel[i] # ShutdownRequest
    /\ channel' = Append(channel, ShutdownRequest)
    /\ UNCHANGED <<now, nticks, nreq, acl, jwt_key, dropped, shutdown_seen, hgen, dproc, written, tui,
                   devices, created, lastList, actor, hpc, hreq, hresp,
                   oneshot, wallet, exchange>>

\* Mutant of ActorExit: the loop is left once a Shutdown request has been
\* consumed.
ActorExit_OnShutdown ==
    /\ actor = "running"
    /\ shutdown_seen
    /\ actor' = "exited"
    /\ UNCHANGED <<now, nticks, nreq, acl, jwt_key, dropped, shutdown_seen, hgen, dproc, written, tui,
                   devices, created, lastList, channel, hpc, hreq, hresp,
                   oneshot, wallet, exchange>>

\* channel.recv() returns None once every Sender is gone and the queue is
\* empty: the `while let` loop ends.
ActorExit ==
    /\ actor = "running"
    /\ dropped
    /\ channel = << >>
    /\ actor' = "exited"
    /\ UNCHANGED <<now, nticks, nreq, acl, jwt_key, dropped, shutdown_seen, hgen, dproc, written, tui,
                   devices, created, lastList, channel, hpc, hreq, hresp,
                   oneshot, wallet, exchange>>

(***************************************************************************)
(* Controller (tui.rs): the token it was given, and what it sends.         *)
(***************************************************************************)
\* request_control_token + token.tokens.get(&device.cid): the Controller
\* reads a 2.05 response and keeps the token of device d.
TakeToken(h, d) ==
    /\ hpc[h] = "responded"
    /\ hresp[h].code = "2.05"
    /\ hresp[h].payload.kind = "tokens"
    /\ d \in DOMAIN hresp[h].payload.tokens
    /\ wallet' = hresp[h].payload.tokens[d]
    /\ hpc' = [hpc EXCEPT ![h] = "idle"]
    /\ hreq' = [hreq EXCEPT ![h] = None]
    /\ hresp' = [hresp EXCEPT ![h] = None]
    /\ UNCHANGED <<now, nticks, nreq, acl, jwt_key, dropped, shutdown_seen, hgen, dproc, written, tui,
                   devices, created, lastList, channel, actor, oneshot, exchange>>

ParamLen(p) == CASE p = "speed" -> 5 [] p = "pressure" -> 8

RECURSIVE ElementsLen(_, _)
ElementsLen(seq, i) ==
    IF i > Len(seq) THEN 0
    ELSE ParamLen(seq[i]) + 2 + (IF i > 1 THEN 1 ELSE 0) + ElementsLen(seq, i + 1)

\* Bytes of serde_json's rendering of JwtClaims: three 36-character cids, a
\* ten-digit exp, and the two arrays of quoted parameter names.
ClaimsJsonLen(claims) ==
    184 + (2 + ElementsLen(claims.params_read, 1))
        + (2 + ElementsLen(claims.params_write, 1))

\* tamper_with_token: URL_SAFE (padded) decodes the unpadded payload only when
\* it needs no padding (unwrap panics otherwise); aud is rewritten; the padded
\* re-encoding of a text of the same length again carries no padding; header
\* and signature are kept.
tamper_with_token(token, new_audience) ==
    IF ClaimsJsonLen(token.claims) % 3 # 0
    THEN [ok |-> FALSE]
    ELSE [ok |-> TRUE, token |-> [token EXCEPT !.claims.aud = new_audience]]

\* A token made without the Arbiter's key.
ForgedToken(d, t) ==
    JwtEncode(Header("ES256"),
              JwtClaims(UuidToString(ArbiterCid), UuidToString("c1"), UuidToString(d),
                        t + TokenLifetime, <<"speed">>, <<"speed">>),
              OtherKey)

\* What a peer can put into the token field of a request to device d.
PresentableTokens(w, d, t) ==
    {GarbageToken, ForgedToken(d, t)}
    \cup (IF w = None THEN {}
          ELSE {w, [w EXCEPT !.header = Header("none")]}
               \cup (IF tamper_with_token(w, UuidToString(d)).ok
                     THEN {tamper_with_token(w, UuidToString(d)).token}
                     ELSE {}))

GetParamPayload(token) == [kind |-> "GetParamPayload", token |-> token]
SetParamPayload(token, value) ==
    [kind |-> "SetParamPayload", token |-> token, value |-> value]

\* The (method, body) pairs sent to device d: send_request's two shapes with
\* every presentable token, and the malformed ones.
DeviceRequests(w, d, t) ==
    LET toks == PresentableTokens(w, d, t) IN
    {<<"GET", GetParamPayload(tok)>> : tok \in toks}
    \cup {<<"PUT", SetParamPayload(tok, "7")>> : tok \in toks}
    \cup {<<"GET", GarbageBody>>, <<"PUT", GarbageBody>>, <<"POST", GarbageBody>>}
    \cup (IF w = None THEN {}
          ELSE {<<"GET", SetParamPayload(w, "7")>>, <<"PUT", GetParamPayload(w)>>,
                <<"POST", SetParamPayload(w, "7")>>})

(***************************************************************************)
(* RequestHandler::handle_request of the Device (device/main.rs).          *)
(***************************************************************************)
DecodeFailure(err) == apply_from_error(bad_request(<<"Couldn't decode JWT", err>>))
Forbidden == apply_from_error(HandlingError("4.03", "No permission for parameter"))

\* Mutant of DeviceGet: any grant, read or write, lets the GET through.
DeviceGet_AnyGrant(my_cid, parameter, body, t) ==
    IF ~(ParsesAs(body, "GetParamPayload") \/ ParsesAs(body, "SetParamPayload"))
    THEN [response |-> apply_from_error(bad_request("Couldn't parse payload of GET /")),
          executed |-> FALSE]
    ELSE LET jwt_data == decode_jwt(body.token, ArbiterKey, UuidToString(my_cid), t) IN
         IF ~jwt_data.ok
         THEN [response |-> DecodeFailure(jwt_data.err), executed |-> FALSE]
         ELSE IF ~(\/ Contains(jwt_data.claims.params_read, parameter)
                   \/ Contains(jwt_data.claims.params_write, parameter))
         THEN [response |-> Forbidden, executed |-> FALSE]
         ELSE [response |-> [code |-> "2.05", payload |-> Text("42")],
               executed |-> TRUE]

\* Mutant of DeviceGet: the grant is looked up in params_write.
DeviceGet_WriteGrant(my_cid, parameter, body, t) ==
    IF ~(ParsesAs(body, "GetParamPayload") \/ ParsesAs(body, "SetParamPayload"))
    THEN [response |-> apply_from_error(bad_request("Couldn't parse payload of GET /")),
          executed |-> FALSE]
    ELSE LET jwt_data == decode_jwt(body.token, ArbiterKey, UuidToString(my_cid), t) IN
         IF ~jwt_data.ok
         THEN [response |-> DecodeFailure(jwt_data.err), executed |-> FALSE]
         ELSE IF ~Contains(jwt_data.claims.params_write, parameter)
         THEN [response |-> Forbidden, executed |-> FALSE]
         ELSE [response |-> [code |-> "2.05", payload |-> Text("42")],
               executed |-> TRUE]

\* Mutant of DeviceGet: the value of the latest PUT of the parameter is
\* returned.
DeviceGet_Stored(my_cid, parameter, body, t) ==
    IF ~(ParsesAs(body, "GetParamPayload") \/ ParsesAs(body, "SetParamPayload"))
    THEN [response |-> apply_from_error(bad_request("Couldn't parse payload of GET /")),
          executed |-> FALSE]
    ELSE LET jwt_data == decode_jwt(body.token, ArbiterKey, UuidToString(my_cid), t) IN
         IF ~jwt_data.ok
         THEN [response |-> DecodeFailure(jwt_data.err), executed |-> FALSE]
         ELSE IF ~Contains(jwt_data.claims.params_read, parameter)
         THEN [response |-> Forbidden, executed |-> FALSE]
         ELSE [response |->
                 [code |-> "2.05",
                  payload |-> IF written[my_cid] # None
                                 /\ written[my_cid].parameter = parameter
                              THEN Text(written[my_cid].value) ELSE Text("42")],
               executed |-> TRUE]

\* Method::Get branch
DeviceGet(my_cid, parameter, body, t) ==
    IF ~(ParsesAs(body, "GetParamPayload") \/ ParsesAs(body, "SetParamPayload"))
    THEN [response |-> apply_from_error(bad_request("Couldn't parse payload of GET /")),
          executed |-> FALSE]
    ELSE LET jwt_data == decode_jwt(body.token, ArbiterKey, UuidToString(my_cid), t) IN
         IF ~jwt_data.ok
         THEN [response |-> DecodeFailure(jwt_data.err), executed |-> FALSE]
         ELSE IF ~Contains(jwt_data.claims.params_read, parameter)
         THEN [response |-> Forbidden, executed |-> FALSE]
         ELSE [response |-> [code |-> "2.05", payload |-> Text("42")],
               executed |-> TRUE]

\* Method::Put branch
DevicePut(my_cid, parameter, body, t) ==
    IF ~ParsesAs(body, "SetParamPayload")
    THEN [response |-> apply_from_error(bad_request("Couldn't parse payload of SET /")),
          executed |-> FALSE]
    ELSE LET jwt_data == decode_jwt(body.token, ArbiterKey, UuidToString(my_cid), t) IN
         IF ~jwt_data.ok
         THEN [response |-> DecodeFailure(jwt_data.err), executed |-> FALSE]
         ELSE IF ~Contains(jwt_data.claims.params_write, parameter)
         THEN [response |-> Forbidden, executed |-> FALSE]
         ELSE [response |-> [code |-> "2.05", payload |-> EmptyPayload],
               executed |-> TRUE]

\* Mutant of DeviceHandle: a token is honoured only when its sub is the peer
\* that presents it.
DeviceHandle_SubIsPeer(my_cid, peer, method, parameter, body, t) ==
    IF /\ method \in {"GET", "PUT"}
       /\ "token" \in DOMAIN body
       /\ body.token.kind = "jws"
       /\ body.token.claims.sub # UuidToString(peer)
    THEN [response |-> DecodeFailure("InvalidSubject"), executed |-> FALSE]
    ELSE CASE method = "GET" -> DeviceGet(my_cid, parameter, body, t)
           [] method = "PUT" -> DevicePut(my_cid, parameter, body, t)
           [] OTHER -> [response |-> DefaultResponse, executed |-> FALSE]

\* match method { Get => .., Put => .., _ => println!(..) }; the peer the
\* request came from (request.source, the DTLS session) is not read.
DeviceHandle(my_cid, peer, method, parameter, body, t) ==
    CASE method = "GET" -> DeviceGet(my_cid, parameter, body, t)
      [] method = "PUT" -> DevicePut(my_cid, parameter, body, t)
      [] OTHER -> [response |-> DefaultResponse, executed |-> FALSE]

DeviceHandleRequest(d, peer, method, parameter, body) ==
    /\ dproc[d].pc = "serving"
    /\ exchange = None
    /\ LET r == DeviceHandle(d, peer, method, parameter, body, now) IN
       /\ exchange' = [device |-> d, peer |-> peer,
                       method |-> method, parameter |-> parameter,
                    body |-> body, at |-> now,
                    response |-> r.response, executed |-> r.executed]
       /\ written' = IF r.executed /\ method = "PUT"
                     THEN [written EXCEPT ![d] = [parameter |-> parameter,
                                                  value |-> body.value]]
                     ELSE written
    /\ UNCHANGED <<now, nticks, arbiterVars, dproc, tui, wallet>>

\* send_request reads the Device's response and returns to the command loop.
ReadResponse ==
    /\ exchange # None
    /\ exchange' = None
    /\ UNCHANGED <<now, nticks, arbiterVars, dproc, written, tui, wallet>>

(***************************************************************************)
(* The start of a Device process (device/main.rs: main).                   *)
(***************************************************************************)
\* register_with_arbiter, after client.send(request).await: the status of
\* the reply is printed, the function returns and main goes on to
\* server.run.
RegistrationReply(h, d) ==
    /\ dproc[d].pc = "down"
    /\ hpc[h] = "responded"
    /\ hreq[h].method = "PUT"
    /\ hreq[h].path = <<"devices", UuidToString(d)>>
    /\ dproc' = [dproc EXCEPT ![d] = [pc |-> "serving", reg |-> hresp[h].code]]
    /\ hpc' = [hpc EXCEPT ![h] = "idle"]
    /\ hreq' = [hreq EXCEPT ![h] = None]
    /\ hresp' = [hresp EXCEPT ![h] = None]
    /\ UNCHANGED <<now, nticks, nreq, acl, jwt_key, dropped, shutdown_seen, hgen, written, tui,
                   devices, created, lastList, channel, actor, oneshot, wallet, exchange>>

\* CoAPClient::from_udp_dtls_config(..).await.unwrap() or
\* client.send(request).await.unwrap() on a transport error: main panics.
RegistrationTransportFailure(d) ==
    /\ dproc[d].pc = "down"
    /\ dproc' = [dproc EXCEPT ![d] = [pc |-> "terminated", reg |-> None]]
    /\ UNCHANGED <<now, nticks, arbiterVars, written, tui, wallet, exchange>>

\* The Device process is started again.
DeviceRestart(d) ==
    /\ dproc[d].pc \in {"serving", "terminated"}
    /\ exchange = None
    /\ dproc' = [dproc EXCEPT ![d] = [pc |-> "down", reg |-> None]]
    /\ UNCHANGED <<now, nticks, arbiterVars, written, tui, wallet, exchange>>

(***************************************************************************)
(* The Controller's command loop (controller/tui.rs: run_tui).  What the   *)
(* Arbiter and the Devices answer to a command is an input of the action.  *)
(***************************************************************************)
\* The loop has read a line; the rest of the record is what the command
\* made of it.
TuiDone(cmd, pc, out, lookup, sent) ==
    [tui EXCEPT !.ncmd = @ + 1, !.cmd = cmd, !.pc = pc, !.out = out,
                !.lookup = lookup, !.sent = sent]

TuiReads ==
    /\ tui.pc = "reading"
    /\ tui.ncmd < MaxCommands
    /\ UNCHANGED <<now, nticks, arbiterVars, dproc, written, wallet, exchange>>

\* 'q' => break
TuiQuit ==
    /\ TuiReads
    /\ tui' = TuiDone([kind |-> "q"], "quit", "", << >>, FALSE)

\* 'c': connect_to_arbiter succeeds or fails.
TuiConnect(ok) ==
    /\ TuiReads
    /\ tui' = [TuiDone([kind |-> "c"], "reading",
                       IF ok THEN "Connected to Arbiter."
                             ELSE "Failed to connect to Arbiter",
                       << >>, FALSE)
                 EXCEPT !.client = (tui.client \/ ok)]

\* 'd': discover_devices returns the Arbiter's list, in the order the
\* response gives it, or fails.
TuiDiscover(result) ==
    /\ TuiReads
    /\ tui' = IF ~tui.client
              THEN TuiDone([kind |-> "d"], "reading", "Not connected to Arbiter",
                           << >>, FALSE)
              ELSE IF result.kind = "Err"
              THEN TuiDone([kind |-> "d"], "reading", "Failed to discover devices",
                           << >>, TRUE)
              ELSE [TuiDone([kind |-> "d"], "reading", "Discovered devices",
                            << >>, TRUE)
                      EXCEPT !.current_devices = result.devices]

\* 'g' | 's': the line matches gs_regex (and an s has its value) or not; the
\* index is compared with `device_index > current_devices.len()`; then the
\* client is looked at, current_devices[device_index] is taken, the token is
\* requested and the request is sent to the Device.
TuiGetSet(kind, syntax, device_index, reply) ==
    /\ TuiReads
    /\ LET cmd == [kind |-> kind, syntax |-> syntax, indices |-> <<device_index>>]
           len == Len(tui.current_devices)
       IN  tui' =
             IF ~syntax
             THEN TuiDone(cmd, "reading", "Invalid syntax", << >>, FALSE)
             ELSE IF device_index > len
             THEN TuiDone(cmd, "reading", "Invalid device index", << >>, FALSE)
             ELSE IF ~tui.client
             THEN TuiDone(cmd, "reading", "Not connected to Arbiter", << >>, FALSE)
             ELSE IF device_index >= len
             THEN TuiDone(cmd, "panicked", "index out of bounds", << >>, FALSE)
             ELSE IF reply = "TokenErr"
             THEN TuiDone(cmd, "reading", "Failed to get control token",
                          <<device_index>>, TRUE)
             ELSE IF reply = "SendErr"
             THEN TuiDone(cmd, "reading", "Failed to execute request",
                          <<device_index>>, TRUE)
             ELSE TuiDone(cmd, "reading",
                          IF kind = "g" THEN "Got GET result" ELSE "SET successfully",
                          <<device_index>>, TRUE)

\* 'f': the same with two indices; the token is requested for device a and
\* sent, tampered with, to device b.
TuiForge(syntax, device_index_a, device_index_b, reply) ==
    /\ TuiReads
    /\ LET cmd == [kind |-> "f", syntax |-> syntax,
                   indices |-> <<device_index_a, device_index_b>>]
           len == Len(tui.current_devices)
       IN  tui' =
             IF ~syntax
             THEN TuiDone(cmd, "reading", "Invalid syntax", << >>, FALSE)
             ELSE IF device_index_a > len \/ device_index_b > len
             THEN TuiDone(cmd, "reading", "Invalid device index", << >>, FALSE)
             ELSE IF ~tui.client
             THEN TuiDone(cmd, "reading", "Not connected to Arbiter", << >>, FALSE)
             ELSE IF device_index_a >= len
             THEN TuiDone(cmd, "panicked", "index out of bounds", << >>, FALSE)
             ELSE IF device_index_b >= len
             THEN TuiDone(cmd, "panicked", "index out of bounds",
                          <<device_index_a>>, FALSE)
             ELSE IF reply = "TokenErr"
             THEN TuiDone(cmd, "reading", "Failed to get control token",
                          <<device_index_a, device_index_b>>, TRUE)
             ELSE IF reply = "SendErr"
             THEN TuiDone(cmd, "reading", "Failed to execute PUT request",
                          <<device_index_a, device_index_b>>, TRUE)
             ELSE TuiDone(cmd, "reading", "SET successfully",
                          <<device_index_a, device_index_b>>, TRUE)

\* 'p'
TuiPrint ==
    /\ TuiReads
    /\ tui' = TuiDone([kind |-> "p"], "reading",
                      IF tui.current_devices = << >> THEN "No devices discovered"
                                                     ELSE "devices",
                      << >>, FALSE)

(***************************************************************************)
(* Requests the Arbiter is given.                                          *)
(***************************************************************************)
PutDevicePayload(label, manufacturer, model, port, ttl) ==
    [kind |-> "PutDevicePayload", label |-> label, manufacturer |-> manufacturer,
     model |-> model, port |-> port, ttl |-> ttl]

PutDevicePayloads ==
    { PutDevicePayload("pump", "acme", "x1", 40001, DeviceTtl),
      PutDevicePayload("valve", "bolt", "y2", 40002, 0),
      PutDevicePayload("valve", "acme", "y2", 40001, U64Max) }

ControlTokenPayload(cid, devs, pr, pw) ==
    [kind |-> "ControlTokenRequest", cid |-> cid, devices |-> devs,
     params_read |-> pr, params_write |-> pw]

RegistryRequests ==
    { CoapRequest("PUT", <<"devices", UuidToString("d1")>>, body) :
          body \in PutDevicePayloads \cup {GarbageBody} }
    \cup { CoapRequest("PUT", <<"devices", UuidToString("d2")>>, body) :
          body \in PutDevicePayloads \ {PutDevicePayload("valve", "acme", "y2", 40001, U64Max)} }
    \cup { CoapRequest("GET", <<"devices">>, [kind |-> "empty"]),
           CoapRequest("POST", <<"devices">>, [kind |-> "empty"]),
           CoapRequest("PUT", <<"devices", "not-a-uuid">>,
                       PutDevicePayload("pump", "acme", "x1", 40001, DeviceTtl)) }

DeviceLists == { << >>, <<"d1">>, <<"d2">>, <<"d1", "d2">>, <<"d1", "d1">> }
ParamLists == { << >>, <<"speed">>, <<"speed", "pressure">> }

MintRequests ==
    { CoapRequest("GET", <<"controlToken">>, ControlTokenPayload(c, ds, pr, pw)) :
          c \in ControllerCids, ds \in DeviceLists, pr \in ParamLists, pw \in ParamLists }
    \cup { CoapRequest("GET", <<"controlToken">>, GarbageBody) }

\* What the TUI asks for (g, s and f commands), and a two-device request.
ControllerRequests ==
    { CoapRequest("GET", <<"controlToken">>, ControlTokenPayload("c1", ds, pp[1], pp[2])) :
          ds \in { <<"d1">>, <<"d1", "d2">> },
          pp \in { << <<"speed">>, << >> >>, << << >>, <<"speed">> >> } }

\* register_with_arbiter: the PUT /devices/{cid} a Device sends on launch,
\* with the label triple of its config.json and the port it has bound.
DeviceRegistration(d) ==
    CoapRequest("PUT", <<"devices", UuidToString(d)>>,
                IF d = "d1" THEN PutDevicePayload("pump", "acme", "x1", 40001, DeviceTtl)
                            ELSE PutDevicePayload("valve", "bolt", "y2", 40002, DeviceTtl))

\* Requests whose body is not the JSON the route expects.
MalformedRequests ==
    { CoapRequest("GET", <<"controlToken">>, GarbageBody),
      CoapRequest("PUT", <<"devices", "not-a-uuid">>, GarbageBody) }

\* What the Arbiter is sent while device d1 and the Controller run.
SessionRequests ==
    ControllerRequests \cup {DeviceRegistration("d1")} \cup MalformedRequests

(***************************************************************************)
(* Specifications.                                                         *)
(***************************************************************************)
\* The registry: registration and listing through the state actor.
InitRegistry == Init /\ acl = [entries |-> << >>]

Next ==
    \/ \E h \in Handlers, req \in RegistryRequests : ArbiterHandleRequest(h, req)
    \/ \E h \in Handlers : HandlerReceive(h)
    \/ \E h \in Handlers : HandlerRecvError(h)
    \/ \E h \in Handlers : Deliver(h)
    \/ run_state_loop
    \/ \E step \in {1, DeviceTtl} : Tick(step)

Spec == InitRegistry /\ [][Next]_vars

\* The mint: control-token requests through the state actor.
NextMint ==
    \/ \E req \in MintRequests : ArbiterHandleRequest(1, req)
    \/ HandlerReceive(1)
    \/ Deliver(1)
    \/ run_state_loop
    \/ \E step \in {1, TokenLifetime} : Tick(step)

SpecMint == Init /\ [][NextMint]_vars

\* The registry with the end of the handler and of the state loop.
ShutdownRequests ==
    { CoapRequest("PUT", <<"devices", UuidToString(d)>>,
                  PutDevicePayload("pump", "acme", "x1", 40001, DeviceTtl)) : d \in DeviceCids }
    \cup { CoapRequest("GET", <<"devices">>, [kind |-> "empty"]) }

NextShutdown ==
    \/ \E h \in Handlers, req \in ShutdownRequests : ArbiterHandleRequest(h, req)
    \/ \E h \in Handlers : HandlerReceive(h)
    \/ \E h \in Handlers : Deliver(h)
    \/ run_state_loop
    \/ Drop_RequestHandler
    \/ SendShutdown
    \/ ActorExit
    \/ Tick(1)

SpecShutdown == InitRegistry /\ [][NextShutdown]_vars

\* The registry with requesters that go away before they are answered.
CancelRequests ==
    ShutdownRequests
    \cup { CoapRequest("PUT", <<"devices", UuidToString("d1")>>,
                       PutDevicePayload("valve", "acme", "y2", 40001, U64Max)) }

NextCancel ==
    \/ \E h \in Handlers, req \in CancelRequests : ArbiterHandleRequest(h, req)
    \/ \E h \in Handlers : HandlerReceive(h)
    \/ \E h \in Handlers : HandlerRecvError(h)
    \/ \E h \in Handlers : HandlerCancelled(h)
    \/ \E h \in Handlers : Deliver(h)
    \/ run_state_loop
    \/ Tick(1)

SpecCancel == InitRegistry /\ [][NextCancel]_vars

\* The whole Arbiter: every request type reaches the state actor, records
\* expire, the handler is dropped and the loop ends.
ArbiterRequests ==
    { CoapRequest("PUT", <<"devices", UuidToString("d1")>>, body) :
          body \in PutDevicePayloads }
    \cup { CoapRequest("GET", <<"devices">>, [kind |-> "empty"]) }
    \cup { CoapRequest("GET", <<"controlToken">>,
                       ControlTokenPayload("c1", ds, <<"speed">>, << >>)) :
              ds \in { <<"d1">>, <<"d1", "d2">> } }

NextArbiter ==
    \/ \E h \in Handlers, req \in ArbiterRequests : ArbiterHandleRequest(h, req)
    \/ \E h \in Handlers : HandlerReceive(h)
    \/ \E h \in Handlers : HandlerRecvError(h)
    \/ \E h \in Handlers : Deliver(h)
    \/ run_state_loop
    \/ Drop_RequestHandler
    \/ SendShutdown
    \/ ActorExit
    \/ \E step \in {1, DeviceTtl} : Tick(step)

SpecArbiter == InitRegistry /\ [][NextArbiter]_vars

\* A Device serving a Controller that reads and writes one parameter with
\* one token, writing different values.
ReadWriteRequest ==
    CoapRequest("GET", <<"controlToken">>,
                ControlTokenPayload("c1", <<"d1">>, <<"speed">>, <<"speed">>))

ReadWriteBodies(w) ==
    {<<"GET", GarbageBody>>, <<"PUT", GarbageBody>>}
    \cup (IF w = None THEN {}
          ELSE {<<"GET", GetParamPayload(w)>>, <<"POST", GetParamPayload(w)>>}
               \cup {<<"PUT", SetParamPayload(w, v)>> : v \in {"7", "8"}})

NextStateless ==
    \/ exchange = None /\ ArbiterHandleRequest(1, ReadWriteRequest)
    \/ HandlerReceive(1)
    \/ run_state_loop
    \/ TakeToken(1, "d1")
    \/ \E d \in DeviceCids, parameter \in Parameters :
          \E mb \in ReadWriteBodies(wallet) :
              DeviceHandleRequest(d, "c1", mb[1], parameter, mb[2])
    \/ ReadResponse
    \/ \E step \in {1, TokenLifetime} : Tick(step)

SpecStateless == InitRegistry /\ [][NextStateless]_vars

\* Two Controllers: c1 asks the Arbiter for tokens, naming itself or c2 in
\* the body, and either Controller presents what was issued, as issued or
\* issued anew with another iss or sub.
Issuers == {UuidToString(ArbiterCid), UuidToString("c2")}

\* The token of the body as the signer would have issued it with the given
\* iss and sub; a body without a properly signed token stays as it is.
Reissue(body, iss, sub) ==
    IF /\ "token" \in DOMAIN body
       /\ body.token.kind = "jws"
       /\ body.token.signature.claims = body.token.claims
       /\ body.token.signature.header = body.token.header
    THEN [body EXCEPT !.token =
             JwtEncode(body.token.header,
                       [body.token.claims EXCEPT !.iss = iss, !.sub = sub],
                       body.token.signature.key)]
    ELSE body

BearerRequest(c) ==
    [method |-> "GET", path |-> <<"controlToken">>,
     payload |-> ControlTokenPayload(c, <<"d1">>, <<"speed">>, << >>),
     source |-> "c1"]

BearerBodies(w, d, t) ==
    LET asIssued == {GetParamPayload(tok) : tok \in PresentableTokens(w, d, t)}
                    \cup (IF w = None THEN {} ELSE {SetParamPayload(w, "7")})
    IN  {<<"GET", GarbageBody>>}
        \cup {<<"GET", Reissue(b, iss, UuidToString(sub))>> :
                 b \in asIssued, iss \in Issuers, sub \in ControllerCids}
        \cup {<<"PUT", b>> : b \in asIssued}

NextBearer ==
    \/ \E c \in ControllerCids : exchange = None /\ ArbiterHandleRequest(1, BearerRequest(c))
    \/ HandlerReceive(1)
    \/ run_state_loop
    \/ TakeToken(1, "d1")
    \/ Deliver(1)
    \/ \E peer \in ControllerCids, d \in DeviceCids :
          \E mb \in BearerBodies(wallet, d, now) :
              DeviceHandleRequest(d, peer, mb[1], "speed", mb[2])
    \/ ReadResponse
    \/ Tick(TokenLifetime)

SpecBearer == InitRegistry /\ [][NextBearer]_vars

\* The Controller's command loop with every answer it can be given.
DeviceListings ==
    { << >>, <<"d1">>, <<"d2">>, <<"d1", "d2">>, <<"d2", "d1">> }

DeviceIndexes == 0..(Cardinality(DeviceCids) + 1)

Replies == {"Ok", "TokenErr", "SendErr"}

NextTui ==
    \/ TuiQuit
    \/ \E ok \in BOOLEAN : TuiConnect(ok)
    \/ \E result \in {[kind |-> "Err"]}
                       \cup {[kind |-> "Ok", devices |-> l] : l \in DeviceListings} :
          TuiDiscover(result)
    \/ \E kind \in {"g", "s"}, syntax \in BOOLEAN, i \in DeviceIndexes,
          reply \in Replies : TuiGetSet(kind, syntax, i, reply)
    \/ \E syntax \in BOOLEAN, a \in DeviceIndexes, b \in DeviceIndexes,
          reply \in Replies : TuiForge(syntax, a, b, reply)
    \/ TuiPrint

SpecTui == InitRegistry /\ [][NextTui]_vars

\* The end of the state loop, where the task of the loop is polled whenever
\* recv() has a request or the end of the queue to return.
NextDrain ==
    \/ \E h \in Handlers, req \in CancelRequests : ArbiterHandleRequest(h, req)
    \/ \E h \in Handlers : HandlerReceive(h)
    \/ \E h \in Handlers : HandlerRecvError(h)
    \/ \E h \in Handlers : Deliver(h)
    \/ run_state_loop
    \/ Drop_RequestHandler
    \/ SendShutdown
    \/ ActorExit
    \/ Tick(1)

SpecDrain ==
    InitRegistry /\ [][NextDrain]_vars
        /\ WF_vars(run_state_loop) /\ WF_vars(ActorExit)

\* The mint of an Arbiter whose key file holds any key KeyPair::from_pem
\* accepts.
InitSign == Boot({ArbiterKey, WrongCurveKey}, "serving")

SpecSign == InitSign /\ [][NextMint]_vars

\* Arbiter, Controller and Devices: tokens minted, carried and presented.
\* The Controller's command loop is sequential: it asks for a token, reads
\* the answer, sends one request to a Device and reads that answer.
NextDevice ==
    \/ \E req \in SessionRequests : exchange = None /\ ArbiterHandleRequest(1, req)
    \/ HandlerReceive(1)
    \/ run_state_loop
    \/ \E d \in DeviceCids : TakeToken(1, d)
    \/ Deliver(1)
    \/ /\ hpc[1] = "idle"
       /\ exchange = None
       /\ \E d \in DeviceCids, parameter \in Parameters :
             \E mb \in DeviceRequests(wallet, d, now) :
                 DeviceHandleRequest(d, "c1", mb[1], parameter, mb[2])
    \/ ReadResponse
    \/ \E step \in {1, TokenLifetime} : Tick(step)

SpecDevice == Init /\ [][NextDevice]_vars

\* Device processes from their launch: registration, then serving.
InitStartup == Boot({ArbiterKey}, "down") /\ acl = [entries |-> << >>]

NextStartup ==
    \/ \E d \in DeviceCids :
          dproc[d].pc = "down" /\ ArbiterHandleRequest(1, DeviceRegistration(d))
    \/ HandlerReceive(1)
    \/ run_state_loop
    \/ \E d \in DeviceCids : RegistrationReply(1, d)
    \/ Deliver(1)
    \/ \E d \in DeviceCids : RegistrationTransportFailure(d)
    \/ \E d \in DeviceCids : DeviceRestart(d)
    \/ \E d \in DeviceCids, parameter \in Parameters :
          \E mb \in DeviceRequests(wallet, d, now) :
              DeviceHandleRequest(d, "c1", mb[1], parameter, mb[2])
    \/ ReadResponse
    \/ Tick(1)

SpecStartup == InitStartup /\ [][NextStartup]_vars

\* The same system, where a registration may also carry the largest TTL, and
\* the state actor, a task of its own on the runtime, is always scheduled
\* again while its queue holds a request.
NextLive ==
    \/ NextDevice
    \/ /\ exchange = None
       /\ ArbiterHandleRequest(1, CoapRequest("PUT", <<"devices", UuidToString("d2")>>,
                                   PutDevicePayload("valve", "acme", "y2", 40001, U64Max)))
    \/ HandlerRecvError(1)

SpecLive == Init /\ [][NextLive]_vars /\ WF_vars(run_state_loop)

(***************************************************************************)
(* Properties of the mint (SpecMint).                                      *)
(***************************************************************************)
\* Handler h has returned a response to a well-formed GET /controlToken.
MintResponded(h) ==
    /\ hpc[h] = "responded"
    /\ hreq[h].method = "GET"
    /\ hreq[h].path = <<"controlToken">>
    /\ hreq[h].payload.kind = "ControlTokenRequest"

\* The tokens a response carries (none when it carries no tokens map).
TokensOf(resp) ==
    IF resp.payload.kind = "tokens"
    THEN {resp.payload.tokens[d] : d \in DOMAIN resp.payload.tokens}
    ELSE {}

\* What a token grants is authorized by the ACL database.
TokenAuthorized(db, tok) ==
    LET c == ParseUuid(tok.claims.sub).value
        d == ParseUuid(tok.claims.aud).value
    IN  /\ \A p \in SeqToSet(tok.claims.params_read) : AclAllows(db, c, d, p, "read")
        /\ \A p \in SeqToSet(tok.claims.params_write) : AclAllows(db, c, d, p, "write")

\* Every (device, parameter, direction) of a control-token request is authorized.
RequestAuthorized(db, body) ==
    \A d \in SeqToSet(body.devices) :
        /\ \A p \in SeqToSet(body.params_read) : AclAllows(db, body.cid, d, p, "read")
        /\ \A p \in SeqToSet(body.params_write) : AclAllows(db, body.cid, d, p, "write")

\* C1: every token the Arbiter returns grants only what the ACL database
\* authorizes: for its sub and aud the ACL has a matching entry for every
\* parameter of params_read (read) and of params_write (write).
C1_TokensAuthorizedByAcl ==
    \A h \in Handlers :
        MintResponded(h) => \A tok \in TokensOf(hresp[h]) : TokenAuthorized(acl, tok)

\* C2: a GET /controlToken with any unauthorized (device, parameter,
\* direction) is answered 4.03 and carries no tokens map.
C2_AclDenialAtomic ==
    \A h \in Handlers :
        (MintResponded(h) /\ ~RequestAuthorized(acl, hreq[h].payload))
            => /\ hresp[h].code = "4.03"
               /\ hresp[h].payload.kind # "tokens"

\* C9: a GET /controlToken whose devices array is empty is answered 4.00 and
\* not with a tokens map.
C9_EmptyDevicesRejected ==
    \A h \in Handlers :
        (MintResponded(h) /\ hreq[h].payload.devices = << >>)
            => /\ hresp[h].code = "4.00"
               /\ hresp[h].payload.kind # "tokens"

\* The state actor takes a ControlToken request off the channel.
MintStep ==
    /\ actor = "running"
    /\ channel # << >>
    /\ Head(channel).ty.kind = "ControlToken"
    /\ channel' = Tail(channel)

\* C7: a token minted at time t for {cid, devices, paramsRead, paramsWrite}
\* has iss = the Arbiter's cid, sub = cid, aud among devices, exp = t + 6000,
\* params_read = paramsRead, params_write = paramsWrite, and decodes under
\* the Arbiter's key to exactly these claims.
C7_MintedClaims ==
    [][ MintStep =>
          LET request == Head(channel).ty.request
              reply == oneshot'[Head(channel).notify]
          IN  /\ reply.kind = "ControlTokenResponse"
              /\ \A d \in DOMAIN reply.tokens :
                    LET tok == reply.tokens[d] IN
                    /\ tok.claims.iss = UuidToString(ArbiterCid)
                    /\ tok.claims.sub = UuidToString(request.cid)
                    /\ \E dev \in SeqToSet(request.devices) :
                          tok.claims.aud = UuidToString(dev)
                    /\ tok.claims.exp = now + TokenLifetime
                    /\ tok.claims.params_read = request.params_read
                    /\ tok.claims.params_write = request.params_write
                    /\ tok.header.alg = "ES256"
                    /\ decode_jwt(tok, ArbiterKey, tok.claims.aud, now) =
                          [ok |-> TRUE, claims |-> tok.claims]
      ]_vars

\* A response with two tokens, minted after the clock has moved.
C7_Witness ==
    \E h \in Handlers :
        /\ MintResponded(h)
        /\ hresp[h].payload.kind = "tokens"
        /\ Cardinality(DOMAIN hresp[h].payload.tokens) = 2
        /\ \E d \in DOMAIN hresp[h].payload.tokens :
              hresp[h].payload.tokens[d].claims.exp > StartTime + TokenLifetime

\* C8: a successful GET /controlToken returns one token per distinct
\* requested device: the keys of the tokens map are the cids in devices and
\* the token under key d has aud = d.
C8_OneTokenPerDevice ==
    \A h \in Handlers :
        (MintResponded(h) /\ hresp[h].code = "2.05")
            => /\ hresp[h].payload.kind = "tokens"
               /\ DOMAIN hresp[h].payload.tokens = SeqToSet(hreq[h].payload.devices)
               /\ \A d \in DOMAIN hresp[h].payload.tokens :
                     hresp[h].payload.tokens[d].claims.aud = UuidToString(d)

\* A response to a request naming the same device twice.
C8_Witness ==
    \E h \in Handlers :
        /\ MintResponded(h)
        /\ hresp[h].code = "2.05"
        /\ hreq[h].payload.devices = <<"d1", "d1">>
        /\ DOMAIN hresp[h].payload.tokens = {"d1"}

(***************************************************************************)
(* Properties of the registry (Spec).                                      *)
(***************************************************************************)
\* The state actor takes a request of the given kind off the channel.
ActorStep(kind) ==
    /\ actor = "running"
    /\ channel # << >>
    /\ Head(channel).ty.kind = kind
    /\ channel' = Tail(channel)

AlreadyExists == "A device with this CID already exists"

\* C6: once PUT /devices/{c} has succeeded, every later PUT /devices/{c} is
\* answered 4.00 "A device with this CID already exists", the record of c
\* stays the one the first PUT wrote, and a list holds exactly one record of
\* c, with that label.
C6_DuplicateRegistrationRejected ==
    [][ /\ (ActorStep("Register") /\ Head(channel).ty.device.cid \in DOMAIN devices)
            => /\ oneshot'[Head(channel).notify] =
                     [kind |-> "Error", error |-> HandlingError("4.00", AlreadyExists)]
               /\ devices' = devices
        /\ \A h \in Handlers :
              (/\ hpc[h] = "waiting"
               /\ oneshot[h] # None
               /\ oneshot[h].kind = "Error"
               /\ hpc'[h] = "responded")
                  => hresp'[h] = [code |-> "4.00", payload |-> Text(AlreadyExists)]
        /\ \A c \in DOMAIN devices : c \in DOMAIN devices' /\ devices'[c] = devices[c]
        /\ ActorStep("List")
            => LET listed == oneshot'[Head(channel).notify].devices IN
               /\ \A c \in DOMAIN devices :
                     Cardinality({r \in listed : r.cid = c}) = 1
               /\ \A r \in listed :
                     r.cid \in DOMAIN devices /\ r.label = devices[r.cid].label
      ]_vars

\* A second PUT for a registered cid, with another label, has been answered
\* 4.00 and the first label is still the stored one.
C6_Witness ==
    \E h \in Handlers :
        /\ hpc[h] = "responded"
        /\ hresp[h] = [code |-> "4.00", payload |-> Text(AlreadyExists)]
        /\ hreq[h].payload.kind = "PutDevicePayload"
        /\ ParseUuid(hreq[h].path[2]).value \in DOMAIN devices
        /\ devices[ParseUuid(hreq[h].path[2]).value].label # hreq[h].payload.label

(***************************************************************************)
(* Properties of the Device (SpecDevice).                                  *)
(***************************************************************************)
\* A Device has handled a GET or PUT whose body carried a token field.
TokenPresented ==
    /\ exchange # None
    /\ exchange.method \in {"GET", "PUT"}
    /\ exchange.body.kind \in {"GetParamPayload", "SetParamPayload"}

\* The token is a JWS the Arbiter's key signed, as it was signed.
SignedByArbiter(tok) ==
    /\ tok.kind = "jws"
    /\ tok.signature.key = ArbiterKey
    /\ tok.signature.header = tok.header
    /\ tok.signature.claims = tok.claims

\* The token grants the parameter for the method's direction.
Granted(tok, method, parameter) ==
    IF method = "GET" THEN Contains(tok.claims.params_read, parameter)
                      ELSE Contains(tok.claims.params_write, parameter)

\* C3: a Device executes a GET or PUT on /{parameter} only for a token that
\* verifies against the Arbiter's key, whose aud is the Device's own cid and
\* that grants the parameter for that direction.
C3_ExecutesOnlyWithValidGrant ==
    (exchange # None /\ exchange.executed)
        => /\ TokenPresented
           /\ exchange.response.code = "2.05"
           /\ SignedByArbiter(exchange.body.token)
           /\ exchange.body.token.claims.aud = UuidToString(exchange.device)
           /\ Granted(exchange.body.token, exchange.method, exchange.parameter)

\* Device d2 has executed a PUT for the token the Controller holds.
C3_Witness ==
    /\ exchange # None
    /\ exchange.executed
    /\ exchange.method = "PUT"
    /\ exchange.body.token = wallet
    /\ exchange.device = "d2"

\* The token was minted by the Arbiter and its payload's aud was rewritten
\* afterwards (header and signature kept).
AudTampered(tok) ==
    /\ tok.kind = "jws"
    /\ tok.signature.key = ArbiterKey
    /\ tok.signature.header = tok.header
    /\ tok.signature.claims # tok.claims
    /\ [tok.signature.claims EXCEPT !.aud = tok.claims.aud] = tok.claims

\* C4: a token minted for device A with aud rewritten to B's cid is answered
\* 4.03 or 4.00 by B and nothing is executed; so is the untampered token for
\* A presented to B.
C4_AudienceTamperRejected ==
    LET tok == exchange.body.token IN
    (/\ TokenPresented
     /\ \/ AudTampered(tok) /\ tok.claims.aud = UuidToString(exchange.device)
        \/ SignedByArbiter(tok) /\ tok.claims.aud # UuidToString(exchange.device))
        => /\ exchange.response.code \in {"4.03", "4.00"}
           /\ ~exchange.executed

\* Device d2 has answered a PUT carrying a token minted for d1 with aud
\* rewritten to d2.
C4_Witness ==
    /\ TokenPresented
    /\ exchange.method = "PUT"
    /\ exchange.device = "d2"
    /\ AudTampered(exchange.body.token)
    /\ exchange.body.token.signature.claims.aud = UuidToString("d1")
    /\ exchange.body.token.claims.aud = UuidToString("d2")
    /\ Contains(exchange.body.token.claims.params_write, exchange.parameter)

\* C5: a Device executes an operation only for a token with exp > now on
\* its clock.
C5_ExpiredTokenRejected ==
    (TokenPresented /\ exchange.executed)
        => exchange.body.token.claims.exp > exchange.at

\* The token is valid for device d at time t.
ValidFor(tok, d, t) ==
    /\ SignedByArbiter(tok)
    /\ tok.header.alg = "ES256"
    /\ tok.claims.aud = UuidToString(d)
    /\ tok.claims.exp > t

\* C10: with a valid token for this Device, GET /{p} with p not in
\* params_read and PUT /{p} with p not in params_write are answered 4.03
\* "No permission for parameter", whatever the other direction grants.
C10_PermissionPerDirection ==
    (/\ TokenPresented
     /\ exchange.method = "PUT" => exchange.body.kind = "SetParamPayload"
     /\ ValidFor(exchange.body.token, exchange.device, exchange.at)
     /\ ~Granted(exchange.body.token, exchange.method, exchange.parameter))
        => /\ exchange.response =
                 [code |-> "4.03", payload |-> Text("No permission for parameter")]
           /\ ~exchange.executed

\* A GET /{p} with a valid token that grants p for writing only was refused.
C10_Witness ==
    /\ TokenPresented
    /\ exchange.method = "GET"
    /\ ValidFor(exchange.body.token, exchange.device, exchange.at)
    /\ Contains(exchange.body.token.claims.params_write, exchange.parameter)
    /\ ~Contains(exchange.body.token.claims.params_read, exchange.parameter)
    /\ exchange.response.code = "4.03"

\* The body of a request to a Device parses as the JSON its method expects
\* (a SetParamPayload also holds the token field a GetParamPayload needs).
BodyParses(method, body) ==
    IF method = "GET" THEN body.kind \in {"GetParamPayload", "SetParamPayload"}
                      ELSE body.kind = "SetParamPayload"

\* The token fails validation at device d at time t: it is not a JWS the
\* Arbiter signed as it stands, or its audience is not d, or it expired more
\* than the leeway ago.
TokenInvalid(tok, d, t) ==
    \/ ~SignedByArbiter(tok)
    \/ tok.header.alg # "ES256"
    \/ tok.claims.aud # UuidToString(d)
    \/ tok.claims.exp + Leeway < t

\* C11: a GET or PUT whose body parses and whose token fails validation
\* (invalid signature, expired, wrong audience) is answered 4.03 Forbidden;
\* a 4.00 is given only to a body that does not parse.
C11_TokenFailuresForbidden ==
    (exchange # None /\ exchange.method \in {"GET", "PUT"})
        => /\ (/\ BodyParses(exchange.method, exchange.body)
               /\ TokenInvalid(exchange.body.token, exchange.device, exchange.at))
                  => exchange.response.code = "4.03"
           /\ exchange.response.code = "4.00"
                  => ~BodyParses(exchange.method, exchange.body)

\* C12: device D is registered, the Controller holds the token the Arbiter
\* minted for D with p in params_read and presents it unmodified in GET /p
\* before exp: D answers 2.05 Content with body 42.
C12_HappyPathGet ==
    (/\ exchange # None
     /\ exchange.method = "GET"
     /\ exchange.device \in DOMAIN devices
     /\ BodyParses("GET", exchange.body)
     /\ wallet # None
     /\ exchange.body.token = wallet
     /\ SignedByArbiter(wallet)
     /\ wallet.claims.aud = UuidToString(exchange.device)
     /\ Contains(wallet.claims.params_read, exchange.parameter)
     /\ exchange.at < wallet.claims.exp)
        => /\ exchange.response = [code |-> "2.05", payload |-> Text("42")]
           /\ exchange.executed

\* Registered device d1 has answered a GET /speed that carried the
\* Controller's token for d1, some time after the token was minted.
C12_Witness ==
    /\ exchange # None
    /\ exchange.method = "GET"
    /\ exchange.device = "d1"
    /\ "d1" \in DOMAIN devices
    /\ exchange.parameter = "speed"
    /\ exchange.body = GetParamPayload(wallet)
    /\ wallet.claims.aud = UuidToString("d1")
    /\ wallet.claims.sub = UuidToString("c1")
    /\ Contains(wallet.claims.params_read, "speed")
    /\ wallet.claims.exp - TokenLifetime < exchange.at
    /\ exchange.at < wallet.claims.exp
    /\ exchange.response.payload = Text("42")

\* C13: a successful PUT /{parameter} on the Device is answered 2.04 Changed
\* with an empty body.
C13_PutAnswersChanged ==
    (exchange # None /\ exchange.method = "PUT" /\ exchange.executed)
        => exchange.response = [code |-> "2.04", payload |-> EmptyPayload]

\* The (method, path) of a request to the Arbiter is in its routing table.
ArbiterRouted(req) ==
    \/ req.method = "GET" /\ req.path = <<"devices">>
    \/ req.method = "PUT" /\ Len(req.path) = 2 /\ req.path[1] = "devices"
    \/ req.method = "GET" /\ req.path = <<"controlToken">>

\* C19: a request whose (method, path) is not in the routing table is
\* answered 4.04 Not Found and has no effect: on the Arbiter anything but
\* GET devices, PUT devices/{cid}, GET controlToken; on the Device any
\* method other than GET or PUT.
C19_UnroutedNotFound ==
    /\ \A h \in Handlers :
          (hreq[h] # None /\ ~ArbiterRouted(hreq[h]))
              => /\ hpc[h] = "responded"
                 /\ hresp[h].code = "4.04"
    /\ (exchange # None /\ exchange.method \notin {"GET", "PUT"})
          => /\ exchange.response.code = "4.04"
             /\ ~exchange.executed

\* The body of a request to the Arbiter is not the JSON its route expects.
ArbiterBodyMalformed(req) ==
    \/ /\ req.method = "PUT" /\ Len(req.path) = 2 /\ req.path[1] = "devices"
       /\ req.payload.kind # "PutDevicePayload"
    \/ /\ req.method = "GET" /\ req.path = <<"controlToken">>
       /\ req.payload.kind # "ControlTokenRequest"

\* C20: a request whose body does not parse as the expected JSON is answered
\* 4.00 before any other step: the Arbiter's handler answers without
\* enqueueing anything and the registry is unchanged; the Device answers
\* with the parse failure (the token is not decoded) and executes nothing.
C20_MalformedBodyRejected ==
    [][ /\ nreq' # nreq
            => \A h \in Handlers :
                  (hreq'[h] # hreq[h] /\ ArbiterBodyMalformed(hreq'[h]))
                      => /\ hpc'[h] = "responded"
                         /\ hresp'[h].code = "4.00"
                         /\ hresp'[h].payload.kind = "text"
                         /\ channel' = channel
                         /\ devices' = devices
        /\ (/\ exchange = None
            /\ exchange' # None
            /\ exchange'.method \in {"GET", "PUT"}
            /\ ~BodyParses(exchange'.method, exchange'.body))
              => /\ exchange'.response \in
                       { apply_from_error(bad_request("Couldn't parse payload of GET /")),
                         apply_from_error(bad_request("Couldn't parse payload of SET /")) }
                 /\ exchange'.response.code = "4.00"
                 /\ ~exchange'.executed
      ]_vars

\* With d1 registered, a PUT /devices/{id} whose body is not JSON and whose
\* id is not a cid either has been answered 4.00.
C20_Witness ==
    /\ hpc[1] = "responded"
    /\ hreq[1] = CoapRequest("PUT", <<"devices", "not-a-uuid">>, GarbageBody)
    /\ hresp[1].code = "4.00"
    /\ "d1" \in DOMAIN devices
    /\ channel = << >>

(***************************************************************************)
(* Further properties of the registry (Spec).                              *)
(***************************************************************************)
\* A PUT /devices/{id} with a well-formed body.
WellFormedPut(req) ==
    /\ req # None
    /\ req.method = "PUT"
    /\ Len(req.path) = 2
    /\ req.path[1] = "devices"
    /\ req.payload.kind = "PutDevicePayload"

\* C14: a successful PUT /devices/{cid} is answered 2.04 Changed and the
\* registry then holds a record for cid with the submitted label,
\* manufacturer, model and port.
C14_RegisterAnswersChanged ==
    [][ \A h \in Handlers :
          (/\ hpc[h] = "waiting"
           /\ WellFormedPut(hreq[h])
           /\ oneshot[h] = [kind |-> "Ok"]
           /\ hpc'[h] = "responded")
              => LET cid == ParseUuid(hreq[h].path[2]).value IN
                 /\ hresp'[h].code = "2.04"
                 /\ cid \in DOMAIN devices'
                 /\ devices'[cid].label = hreq[h].payload.label
                 /\ devices'[cid].manufacturer = hreq[h].payload.manufacturer
                 /\ devices'[cid].model = hreq[h].payload.model
                 /\ devices'[cid].port = hreq[h].payload.port
      ]_vars

\* C15: a PUT /devices/{id} with a well-formed body whose id is not a cid is
\* answered 4.00 Bad Request and leaves the registry as it was.
C15_UnparseableCidRejected ==
    \A h \in Handlers :
        (WellFormedPut(hreq[h]) /\ ~ParseUuid(hreq[h].path[2]).ok)
            => /\ hpc[h] = "responded"
               /\ hresp[h].code = "4.00"

\* C16: the state actor never panics on a client input.
C16_ActorNeverPanics ==
    actor = "running"

\* C17: every record of a list response has ttl = max(0, valid_until - now):
\* never negative, never more than the TTL submitted for its cid, 0 once
\* now >= valid_until, 0 from the first list on for a TTL of 0, and never
\* more than in the list response before it.
C17_ListedTtl ==
    [][ ActorStep("List")
          => LET listed == oneshot'[Head(channel).notify].devices IN
             /\ \A r \in listed :
                   /\ r.cid \in DOMAIN devices
                   /\ r.cid \in DOMAIN created
                   /\ r.ttl = Max(0, devices[r.cid].valid_until - now)
                   /\ r.ttl >= 0
                   /\ r.ttl <= created[r.cid].ttl
                   /\ now >= devices[r.cid].valid_until => r.ttl = 0
                   /\ created[r.cid].ttl = 0 => r.ttl = 0
             /\ lastList # None
                   => \A r \in listed, q \in lastList.devices :
                         r.cid = q.cid => r.ttl <= q.ttl
      ]_vars

\* One list is held by a handler with a positive ttl for a device; the list
\* made after it reports a smaller ttl for the same device, and 0 for a
\* device whose deadline has passed.
C17_Witness ==
    /\ lastList # None
    /\ \E r \in lastList.devices : r.ttl = 0 /\ created[r.cid].at < now
    /\ \E h \in Handlers :
          /\ hpc[h] = "responded"
          /\ hresp[h].payload.kind = "devices"
          /\ \E r \in hresp[h].payload.devices, q \in lastList.devices :
                r.cid = q.cid /\ q.ttl < r.ttl

\* Every cid has one record in a list of the registry.
CidUnique ==
    \A c \in DOMAIN devices :
        Cardinality({r \in list_devices(devices, now) : r.cid = c}) = 1

\* C18: each cid has at most one record and every record has
\* valid_until > creation_instant, whatever TTL was submitted.
C18_ValidUntilAfterCreation ==
    /\ CidUnique
    /\ \A c \in DOMAIN devices :
          c \in DOMAIN created /\ devices[c].valid_until > created[c].at

\* C18 as amended: each cid has at most one record and every record has
\* valid_until = creation_instant + TTL, so valid_until >= creation_instant,
\* with equality exactly for a TTL of 0.
C18_ValidUntilNotBeforeCreation ==
    /\ CidUnique
    /\ \A c \in DOMAIN devices :
          /\ c \in DOMAIN created
          /\ devices[c].valid_until = created[c].at + created[c].ttl
          /\ devices[c].valid_until >= created[c].at
          /\ devices[c].valid_until = created[c].at <=> created[c].ttl = 0

\* Two records, made at different instants: one with a TTL of 0, whose
\* deadline is its creation instant, and one with a positive TTL.
C18_Witness ==
    \E c, d \in DOMAIN devices :
        /\ created[c].ttl = 0
        /\ devices[c].valid_until = created[c].at
        /\ created[d].ttl > 0
        /\ created[d].at # created[c].at
        /\ now > created[c].at

(***************************************************************************)
(* Signing failures (SpecSign).                                            *)
(***************************************************************************)
\* C21: a signing failure while minting is answered 5.00 Internal Server
\* Error, not a 4.xx, without a tokens map, and the state actor goes on.
C21_SigningFailureInternalError ==
    /\ actor = "running"
    /\ \A h \in Handlers :
          (/\ MintResponded(h)
           /\ ~CanSign(jwt_key)
           /\ hreq[h].payload.devices # << >>)
              => /\ hresp[h].code = "5.00"
                 /\ hresp[h].payload.kind # "tokens"

(***************************************************************************)
(* The request queue and the reply slots.                                  *)
(***************************************************************************)
\* C22: the queue never holds more than its capacity and never drops: in
\* every step it is left alone, or a request is appended at its end, or its
\* first request is taken by the state actor; no queued request vanishes.
C22_QueueNeverDrops ==
    [][ /\ Len(channel') <= QueueCapacity
        /\ \/ channel' = channel
           \/ channel # << >> /\ channel' = Tail(channel)
           \/ /\ Len(channel') = Len(channel) + 1
              /\ SubSeq(channel', 1, Len(channel)) = channel
      ]_vars

\* The response codes of CoAP.
ResponseCodes == {"2.01", "2.02", "2.03", "2.04", "2.05",
                  "4.00", "4.01", "4.02", "4.03", "4.04", "4.05", "5.00"}

C24_DropEnqueuesShutdown ==
    dropped => \/ \E i \in 1..Len(channel) : channel[i].ty.kind = "Shutdown"
               \/ shutdown_seen

\* C25: when the state actor has dequeued a Shutdown request it has left its
\* loop: it takes nothing more from the queue and the registry stays as it
\* is.
C25_ShutdownExitsLoop ==
    [][ shutdown_seen
          => /\ devices' = devices
             /\ \A h \in Handlers : oneshot'[h] # oneshot[h] => oneshot'[h] = None
             /\ Len(channel') >= Len(channel)
      ]_vars

(***************************************************************************)
(* The start of a Device (SpecStartup).                                    *)
(***************************************************************************)
\* The response codes that report success.
SuccessCodes == {"2.01", "2.02", "2.03", "2.04", "2.05"}

\* C26: a Device whose startup registration did not succeed terminates and
\* never serves parameter requests: a serving Device has had a success
\* reply to its PUT /devices/{my_cid}.
C26_RegistrationFailureFatal ==
    /\ \A d \in DeviceCids :
          dproc[d].pc = "serving" => dproc[d].reg \in SuccessCodes
    /\ exchange # None => dproc[exchange.device].reg \in SuccessCodes

(***************************************************************************)
(* The order of the state actor's work (Spec).                             *)
(***************************************************************************)
\* The cids of a list of ApiDevice records.
Cids(list) == { r.cid : r \in list }

\* C27: requests are processed one at a time in the order they entered the
\* queue, and every response is the result of applying them in that order:
\* a request enters at the tail; the registry changes and a reply is made
\* only as the oldest queued request is dequeued, for that request alone; a
\* list holds exactly the cids registered by the requests dequeued before it
\* and a registration succeeds exactly when no request dequeued before it
\* registered its cid.
C27_QueueOrder ==
    [][ /\ Len(channel') > Len(channel)
            => SubSeq(channel', 1, Len(channel)) = channel
        /\ ( \/ devices' # devices
             \/ created' # created
             \/ lastList' # lastList
             \/ \E h \in Handlers : oneshot'[h] # oneshot[h] /\ oneshot'[h] # None )
            => /\ channel # << >>
               /\ channel' = Tail(channel)
               /\ LET request == Head(channel)
                      c == request.ty.device.cid
                  IN  /\ \A h \in Handlers :
                            oneshot'[h] # oneshot[h] => h = request.notify
                      /\ oneshot'[request.notify] # None
                      /\ request.ty.kind = "Register"
                            => IF c \in DOMAIN created
                               THEN /\ devices' = devices
                                    /\ created' = created
                                    /\ oneshot'[request.notify].kind = "Error"
                               ELSE /\ DOMAIN devices' = (DOMAIN devices) \cup {c}
                                    /\ \A d \in DOMAIN devices : devices'[d] = devices[d]
                                    /\ devices'[c].label = request.ty.device.label
                                    /\ devices'[c].port = request.ty.device.port
                                    /\ oneshot'[request.notify].kind = "Ok"
                      /\ request.ty.kind = "List"
                            => /\ devices' = devices
                               /\ oneshot'[request.notify].kind = "ListResponse"
                               /\ Cids(oneshot'[request.notify].devices) = DOMAIN created
      ]_vars

\* A list made after the registration of d1 and before the registration of
\* d2, which was in the queue behind it: it holds d1 alone, and both devices
\* are registered now.
C27_Witness ==
    /\ lastList # None
    /\ Cids(lastList.devices) = {"d1"}
    /\ DOMAIN devices = {"d1", "d2"}
    /\ \E h \in Handlers :
          /\ hpc[h] = "responded"
          /\ hresp[h].payload.kind = "devices"
          /\ Cids(hresp[h].payload.devices) = {"d1"}

\* C28: when the state actor dequeues a registration of an unregistered cid
\* while another registration of the same cid with a different payload is
\* queued behind it, the dequeued one wins: it is answered with success and
\* the record is its payload; the ones behind it are answered 4.00 later.
C28_ConcurrentPutOneWinner ==
    [][ ( /\ actor = "running"
          /\ channel # << >>
          /\ Len(channel') < Len(channel)
          /\ Head(channel).ty.kind = "Register"
          /\ Head(channel).ty.device.cid \notin DOMAIN devices
          /\ \E i \in 2..Len(channel) :
                /\ channel[i].ty.kind = "Register"
                /\ channel[i].ty.device.cid = Head(channel).ty.device.cid
                /\ channel[i].ty.device # Head(channel).ty.device )
        => LET request == Head(channel)
               c == request.ty.device.cid
           IN  /\ actor' = "running"
               /\ oneshot'[request.notify] = [kind |-> "Ok"]
               /\ c \in DOMAIN devices'
               /\ devices'[c].label = request.ty.device.label
               /\ devices'[c].manufacturer = request.ty.device.manufacturer
               /\ devices'[c].model = request.ty.device.model
               /\ devices'[c].port = request.ty.device.port
      ]_vars

(***************************************************************************)
(* Reply slots (SpecCancel).                                               *)
(***************************************************************************)
\* The state actor takes the oldest request off the queue, and Instant::now()
\* + ttl does not overflow while it is processed (C16).
Dequeues(request) ==
    /\ actor = "running"
    /\ channel # << >>
    /\ request = Head(channel)
    /\ Len(channel') < Len(channel)
    /\ ~ ( /\ request.ty.kind = "Register"
           /\ request.ty.device.cid \notin DOMAIN devices
           /\ now + request.ty.device.ttl > InstantMax )

\* The invocation that submitted the request is gone.
RequesterGone(request) ==
    /\ request.notify \in Handlers
    /\ hgen[request.notify] # request.gen

\* C29: when the requester has gone away before the reply, the failed send
\* is swallowed: the actor keeps running, the request leaves the queue once,
\* no handler is given the reply, the registry keeps the effect of the
\* request, and a request whose requester still waits is answered as usual.
C29_FailedReplySwallowed ==
    [][ \A request \in {Head(channel) : x \in {1} \cap DOMAIN channel} :
          Dequeues(request)
            => /\ actor' = "running"
               /\ channel' = Tail(channel)
               /\ RequesterGone(request)
                    => /\ oneshot' = oneshot
                       /\ hpc' = hpc
                       /\ request.ty.kind = "Register"
                            => LET c == request.ty.device.cid IN
                               /\ c \in DOMAIN devices'
                               /\ c \notin DOMAIN devices
                                    => /\ devices'[c].label = request.ty.device.label
                                       /\ devices'[c].port = request.ty.device.port
                                       /\ devices'[c].valid_until = now + request.ty.device.ttl
                               /\ c \in DOMAIN devices => devices' = devices
               /\ ~RequesterGone(request)
                    => oneshot'[request.notify]
                          = Process(request.ty, devices, acl, now).response
      ]_vars

\* Handler 1 went away before its registration of d1 was answered; the
\* registration took effect, and the list made for handler 2 after it holds
\* d1 and waits in handler 2's slot.
C29_Witness ==
    /\ nreq = 2
    /\ hgen[1] = 1
    /\ hgen[2] = 0
    /\ hpc[1] = "idle"
    /\ "d1" \in DOMAIN devices
    /\ actor = "running"
    /\ oneshot[2] # None
    /\ oneshot[2].kind = "ListResponse"
    /\ Cids(oneshot[2].devices) = {"d1"}

\* C30: a reply is put only into the slot of the invocation that submitted
\* the request being answered, it is the response computed for that
\* invocation's own request, and no other handler's slot changes.
C30_ReplyToSubmitter ==
    [][ \A h \in Handlers :
          (oneshot'[h] # oneshot[h] /\ oneshot'[h] # None)
            => /\ channel # << >>
               /\ Head(channel).notify = h
               /\ Head(channel).gen = hgen[h]
               /\ hpc[h] = "waiting"
               /\ Route(hreq[h]).kind = "Enqueue"
               /\ Route(hreq[h]).ty = Head(channel).ty
               /\ oneshot'[h] = Process(Route(hreq[h]).ty, devices, acl, now).response
               /\ \A g \in Handlers \ {h} : oneshot'[g] = oneshot[g]
      ]_vars

\* Both handlers await at once and each holds the reply to its own request:
\* handler 1 the Ok of a registration, handler 2 a list.
C30_Witness ==
    /\ hpc[1] = "waiting"
    /\ hpc[2] = "waiting"
    /\ hreq[1].method = "PUT"
    /\ hreq[2].method = "GET"
    /\ oneshot[1] = [kind |-> "Ok"]
    /\ oneshot[2] # None
    /\ oneshot[2].kind = "ListResponse"

(***************************************************************************)
(* The registry over the life of the process (SpecArbiter, SpecDrain).     *)
(***************************************************************************)
\* C31: records are only ever added.  No step removes or changes a record;
\* the registry changes only as a Register of a cid that has no record is
\* dequeued, by that one record; a Register of a cid that has a record is
\* rejected however long ago its deadline passed; a list holds every record,
\* with ttl 0 for the ones whose deadline has passed.
C31_RecordsOnlyAdded ==
    [][ /\ \A c \in DOMAIN devices :
              c \in DOMAIN devices' /\ devices'[c] = devices[c]
        /\ devices' # devices
              => /\ ActorStep("Register")
                 /\ Head(channel).ty.device.cid \notin DOMAIN devices
                 /\ DOMAIN devices' = (DOMAIN devices) \cup {Head(channel).ty.device.cid}
        /\ (ActorStep("Register") /\ Head(channel).ty.device.cid \in DOMAIN devices)
              => /\ devices' = devices
                 /\ oneshot'[Head(channel).notify].kind = "Error"
                 /\ oneshot'[Head(channel).notify].error.code = "4.00"
        /\ ActorStep("List")
              => LET reply == oneshot'[Head(channel).notify] IN
                 /\ Cids(reply.devices) = DOMAIN devices
                 /\ \A r \in reply.devices :
                       devices[r.cid].valid_until <= now => r.ttl = 0
      ]_vars

\* The deadline of d1 has passed; the list made since holds d1 with ttl 0,
\* a repeated PUT of d1 was answered 4.00, and the record is the one made
\* at the start.
C31_Witness ==
    /\ "d1" \in DOMAIN devices
    /\ devices["d1"].valid_until < now
    /\ created["d1"].ttl = DeviceTtl
    /\ lastList # None
    /\ \E r \in lastList.devices : r.cid = "d1" /\ r.ttl = 0
    /\ \E h \in Handlers :
          /\ hpc[h] = "responded"
          /\ hreq[h].method = "PUT"
          /\ hresp[h].code = "4.00"

\* C32: run_state_loop returns exactly when its queue is closed and drained.
\* It has returned only if the handler's Sender is gone and the queue is
\* empty, whatever it consumed before (a Shutdown request included); once
\* the Sender is gone the loop works off what is queued, and with the queue
\* empty it returns.
C32_LoopEndsWhenClosedAndDrained ==
    /\ [](actor = "exited" => dropped /\ channel = << >>)
    /\ [][ (actor' = "exited" /\ actor # "exited")
              => actor = "running" /\ dropped /\ channel = << >> ]_vars
    /\ (dropped /\ actor = "running")
          ~> (actor = "exited" \/ actor = "panicked")
    /\ (dropped /\ channel = << >> /\ actor = "running") ~> (actor = "exited")

\* The loop consumed a registration and a Shutdown request, went on, and has
\* returned after the handler was dropped.
C32_Witness ==
    /\ actor = "exited"
    /\ shutdown_seen
    /\ dropped
    /\ "d1" \in DOMAIN devices

(***************************************************************************)
(* The Device keeps nothing between requests (SpecStateless).              *)
(***************************************************************************)
\* The response that the method, path, body and time of an exchange call
\* for at the Device that handled it.
ExpectedResponse(x) ==
    IF x.method \notin {"GET", "PUT"} THEN DefaultResponse
    ELSE IF x.body.kind \notin {"GetParamPayload", "SetParamPayload"}
            \/ (x.method = "PUT" /\ x.body.kind # "SetParamPayload")
    THEN [code |-> "4.00"]
    ELSE LET jwt_data == decode_jwt(x.body.token, ArbiterKey,
                                    UuidToString(x.device), x.at)
             granted == IF x.method = "GET" THEN jwt_data.claims.params_read
                                            ELSE jwt_data.claims.params_write
         IN  IF ~jwt_data.ok THEN [code |-> "4.00"]
             ELSE IF ~Contains(granted, x.parameter) THEN [code |-> "4.03"]
             ELSE IF x.method = "GET" THEN [code |-> "2.05", payload |-> Text("42")]
             ELSE [code |-> "2.05", payload |-> EmptyPayload]

\* C33: the Device is stateless across requests.  Whatever was written
\* before, the response of an exchange is the one its own method, path,
\* body and time call for, and a GET with a valid read token returns 42.
C33_DeviceStateless ==
    exchange # None
        => LET e == ExpectedResponse(exchange) IN
           /\ exchange.response.code = e.code
           /\ "payload" \in DOMAIN e => exchange.response.payload = e.payload
           /\ (exchange.method = "GET" /\ exchange.executed)
                 => exchange.response.payload = Text("42")

\* The value 8 was written to speed on d1, and a GET of speed on d1 after it
\* is answered 42.
C33_Witness ==
    /\ written["d1"] = [parameter |-> "speed", value |-> "8"]
    /\ exchange # None
    /\ exchange.device = "d1"
    /\ exchange.method = "GET"
    /\ exchange.parameter = "speed"
    /\ exchange.executed
    /\ exchange.response = [code |-> "2.05", payload |-> Text("42")]

(***************************************************************************)
(* The mint and the registry (SpecArbiter).                                *)
(***************************************************************************)
\* C34: the outcome of GET /controlToken does not depend on the registry.
\* The reply to a ControlToken request is one token per requested device,
\* made of the request body, the Arbiter's cid and the time alone, whether
\* the device has a record, has one whose deadline has passed, or has none;
\* the registry is left as it was.
C34_MintIgnoresRegistry ==
    [][ ActorStep("ControlToken")
          => LET request == Head(channel).ty.request
                 reply == oneshot'[Head(channel).notify]
             IN  /\ devices' = devices
                 /\ reply.kind = "ControlTokenResponse"
                 /\ DOMAIN reply.tokens = SeqToSet(request.devices)
                 /\ \A d \in DOMAIN reply.tokens :
                       reply.tokens[d] =
                          JwtEncode(Header("ES256"),
                                    JwtClaims(UuidToString(ArbiterCid),
                                              UuidToString(request.cid),
                                              UuidToString(d),
                                              now + TokenLifetime,
                                              request.params_read,
                                              request.params_write),
                                    ArbiterKey)
      ]_vars

\* A reply with a token for d1, whose record's deadline had passed when the
\* token was minted, and a token for d2, which was never registered.
C34_Witness ==
    \E h \in Handlers :
        /\ oneshot[h] # None
        /\ oneshot[h].kind = "ControlTokenResponse"
        /\ DOMAIN oneshot[h].tokens = {"d1", "d2"}
        /\ "d1" \in DOMAIN devices
        /\ devices["d1"].valid_until < oneshot[h].tokens["d1"].claims.exp - TokenLifetime
        /\ "d2" \notin DOMAIN devices

(***************************************************************************)
(* Bearer tokens (SpecBearer).                                             *)
(***************************************************************************)
\* C35: control tokens are bearer tokens.  The Device's response and its
\* decision to execute are the same for the request it handled and for the
\* request with the token issued with any other iss and sub and presented
\* by any other peer; and every token of a reply of the Arbiter has sub =
\* the cid of the request body, whichever peer sent the request.
C35_BearerTokens ==
    /\ exchange # None
          => \A iss \in Issuers, sub \in ControllerCids, peer \in ControllerCids :
                LET other == DeviceHandle(exchange.device, peer, exchange.method,
                                          exchange.parameter,
                                          Reissue(exchange.body, iss, UuidToString(sub)),
                                          exchange.at)
                IN  /\ other.response = exchange.response
                    /\ other.executed = exchange.executed
    /\ \A h \in Handlers :
          (hpc[h] = "responded" /\ hresp[h].payload.kind = "tokens")
              => \A d \in DOMAIN hresp[h].payload.tokens :
                    hresp[h].payload.tokens[d].claims.sub
                        = UuidToString(hreq[h].payload.cid)

\* The token the Arbiter issued to c1 with sub c1 is presented to d1 by c2,
\* and the GET is executed.
C35_Witness ==
    /\ exchange # None
    /\ exchange.peer = "c2"
    /\ exchange.device = "d1"
    /\ exchange.method = "GET"
    /\ exchange.executed
    /\ exchange.body.token = wallet
    /\ wallet.claims.sub = UuidToString("c1")
    /\ wallet.claims.iss = UuidToString(ArbiterCid)

(***************************************************************************)
(* The Controller's command loop (SpecTui).                                *)
(***************************************************************************)
\* C36: a g, s or f command with a device index that is not an index of
\* current_devices (index >= its length) is refused with "Invalid device
\* index" and the loop goes on reading; the command looks up no device and
\* sends no request.
C36_InvalidIndexRefused ==
    ( /\ tui.cmd # None
      /\ tui.cmd.kind \in {"g", "s", "f"}
      /\ tui.cmd.syntax
      /\ \E n \in 1..Len(tui.cmd.indices) :
            tui.cmd.indices[n] >= Len(tui.current_devices) )
        => /\ tui.pc = "reading"
           /\ tui.out = "Invalid device index"
           /\ tui.lookup = << >>
           /\ ~tui.sent

====
